---- MODULE Spec2Model ----
(***************************************************************************)
(* A model of the playlist synchronizer (create_playlisst.py) and of the   *)
(* two providers it drives (spotify.py, youtube.py).                       *)
(*                                                                         *)
(* A Python string is a sequence of one-character strings.  The two        *)
(* non-ASCII noise characters are written "rsquo" (the typographic right   *)
(* single quote) and "arrow" (the arrow glyph).                            *)
(***************************************************************************)
EXTENDS Integers, Sequences, FiniteSets, TLC

VARIABLES
  pc,               \* position of the run / of the unit under check
  args,             \* parse_args(): [dry_run, spotify, playlist]
  file,             \* song_list.txt: [exists, readable, lines] (token.json in SpecCredentials)
  song_list,        \* main: song_list
  m_svc,            \* main: m_svc ("none" before initialize_service)
  account,          \* the provider account: the sequence of its playlists
  yt_cache,         \* lru_cache of YouTube.my_playlists: [set, value]
  playlist,         \* main: playlist (the target)
  master_song_list, \* main: master_song_list (the catalog)
  idx,              \* main: number of titles of song_list the loop has processed
  song_ids,         \* main: song_ids
  log,              \* the dispositions printed by the loop, one per processed title
                    \* (in SpecPaging: what each listing call returned)
  calls,            \* the provider methods called so far, in order
  error,            \* the exception that ended the run ("none" while it runs)
  song_name,        \* find_matching_song: the needle of the call under check
  matches,          \* find_matching_song: the candidate list process.extract returned
  song,             \* find_matching_song: the returned value
  title,            \* song_title_cleanup: the string under check
  cleaned           \* song_title_cleanup: the results of its successive applications

vars == <<pc, args, file, song_list, m_svc, account, yt_cache, playlist,
          master_song_list, idx, song_ids, log, calls, error,
          song_name, matches, song, title, cleaned>>

run_vars == <<args, file, song_list, m_svc, account, yt_cache, playlist,
              idx, song_ids, log, calls, error>>

resolve_vars == <<song_name, matches, song>>

cleanup_vars == <<title, cleaned>>

----------------------------------------------------------------------------
(* Bounds                                                                  *)

\* longest string handed to song_title_cleanup in SpecCleanup
MaxTitleLen == 3

\* how many times SpecCleanup applies song_title_cleanup in a row
MaxCleanups == 2

\* how many of ResolveKeys may be catalog keys in SpecResolve
PoolSize == 7

\* largest catalog of SpecResolve
MaxKeys == 6

\* how many of ResolveNeedles are tried in SpecResolve
NumNeedles == 5

\* most playlists an account holds when a run of Spec starts
MaxPlaylists == 2

\* most lines song_list.txt holds in Spec
MaxLines == 3

\* how many times SpecSink calls find_or_create_playlist on one instance
MaxFinds == 2

----------------------------------------------------------------------------
(* Strings                                                                 *)

Min(a, b) == IF a <= b THEN a ELSE b

Uppers == <<"A", "B", "C", "E", "M", "R", "S", "T">>

Lowers == <<"a", "b", "c", "e", "m", "r", "s", "t">>

\* str.lower() on one character
lower_char(c) ==
  IF \E i \in DOMAIN Uppers : Uppers[i] = c
  THEN Lowers[CHOOSE i \in DOMAIN Uppers : Uppers[i] = c]
  ELSE c

\* str.lower()
lower(s) == [i \in 1..Len(s) |-> lower_char(s[i])]

\* needle in hay
is_substring(needle, hay) ==
  \E i \in 0..(Len(hay) - Len(needle)) :
    SubSeq(hay, i + 1, i + Len(needle)) = needle

\* the characters song_title_cleanup deletes
NoiseChars == {"(", ")", "rsquo", ",", "arrow", "'"}

\* the table given to str.maketrans: each noise character maps to ''
TranslationTable == [c \in NoiseChars |-> <<>>]

RECURSIVE translate(_, _)
\* str.translate: each character the table holds is replaced by its entry
translate(s, table) ==
  IF s = <<>> THEN <<>>
  ELSE (IF Head(s) \in DOMAIN table THEN table[Head(s)] ELSE <<Head(s)>>)
       \o translate(Tail(s), table)

\* a cleanup that turns the typographic quote into an apostrophe instead of
\* deleting it
song_title_cleanup_requote(song_title) ==
  translate(song_title, [TranslationTable EXCEPT !["rsquo"] = <<"'">>])

\* a cleanup that also lowercases what it keeps
song_title_cleanup_lowered(song_title) ==
  lower(translate(song_title, TranslationTable))

song_title_cleanup(song_title) == translate(song_title, TranslationTable)

----------------------------------------------------------------------------
(* The resolver                                                            *)

\* Python's None
None == [none |-> TRUE]

RECURSIVE Arrangements(_, _)
\* the sequences of n distinct elements of S
Arrangements(S, n) ==
  IF n = 0 THEN {<<>>}
  ELSE UNION {{<<x>> \o r : r \in Arrangements(S \ {x}, n - 1)} : x \in S}

\* thefuzz's process.extract(query, choices) keeps limit=5 candidates
ExtractLimit == 5

\* process.extractOne in place of process.extract: the best candidate only
extract_best_only(query, choices) ==
  Arrangements(choices, Min(1, Cardinality(choices)))

\* process.extract(query, choices): the candidate lists it may return, best
\* score first.  The scores are thefuzz's; every order of every
\* min(limit, |choices|) of the choices stands for some scoring.
extract(query, choices) ==
  Arrangements(choices, Min(ExtractLimit, Cardinality(choices)))

\* the containment check of find_matching_song
Contains(needle, video_title_match) ==
  is_substring(lower(needle), lower(song_title_cleanup(video_title_match)))

RECURSIVE WalkMatches(_, _, _, _)
\* the for loop of find_matching_song from candidate i on
WalkMatches(needle, catalog, ms, i) ==
  IF i > Len(ms) THEN None
  ELSE IF Contains(needle, ms[i]) THEN catalog[ms[i]]
  ELSE WalkMatches(needle, catalog, ms, i + 1)

\* the best candidate is returned unchecked
find_matching_song_unchecked(needle, catalog, ms) ==
  IF ms = <<>> THEN None ELSE catalog[ms[1]]

\* only the best candidate is checked
find_matching_song_first_only(needle, catalog, ms) ==
  IF ms = <<>> THEN None
  ELSE IF Contains(needle, ms[1]) THEN catalog[ms[1]] ELSE None

\* the candidates are walked worst score first
find_matching_song_reversed(needle, catalog, ms) ==
  WalkMatches(needle, catalog, [i \in 1..Len(ms) |-> ms[Len(ms) + 1 - i]], 1)

\* the containment check compares without lowercasing
find_matching_song_case_sensitive(needle, catalog, ms) ==
  LET hit == {i \in 1..Len(ms) : is_substring(needle, song_title_cleanup(ms[i]))}
  IN  IF hit = {} THEN None
      ELSE catalog[ms[CHOOSE i \in hit : \A j \in hit : i <= j]]

\* find_matching_song, given what process.extract returned
find_matching_song(needle, catalog, ms) ==
  IF ms = <<>> THEN None ELSE WalkMatches(needle, catalog, ms, 1)

----------------------------------------------------------------------------
(* The values the variables of the run hold while a unit is checked alone  *)

NoCache == [set |-> FALSE, value |-> <<>>]

RunIdle ==
  /\ args = [dry_run |-> FALSE, spotify |-> FALSE, playlist |-> <<>>]
  /\ file = [exists |-> FALSE, readable |-> FALSE, lines |-> <<>>]
  /\ song_list = <<>>
  /\ m_svc = "none"
  /\ account = <<>>
  /\ yt_cache = NoCache
  /\ playlist = None
  /\ idx = 0
  /\ song_ids = <<>>
  /\ log = <<>>
  /\ calls = <<>>
  /\ error = "none"

ResolveIdle == song_name = <<>> /\ matches = <<>> /\ song = None

CleanupIdle == title = <<>> /\ cleaned = <<>>

----------------------------------------------------------------------------
(* SpecCleanup: song_title_cleanup applied to every short string, and      *)
(* applied again to its own result                                         *)

CleanupChars == {"a", "A", " "} \cup NoiseChars

CleanupTitles == UNION {[1..n -> CleanupChars] : n \in 0..MaxTitleLen}

InitCleanup ==
  /\ pc = "song_title_cleanup"
  /\ title \in CleanupTitles
  /\ cleaned = <<>>
  /\ master_song_list = <<>>
  /\ RunIdle
  /\ ResolveIdle

\* one call of song_title_cleanup: on title first, then on the last result
CleanupCall ==
  /\ pc = "song_title_cleanup"
  /\ Len(cleaned) < MaxCleanups
  /\ cleaned' = Append(cleaned,
                  song_title_cleanup(IF cleaned = <<>> THEN title
                                   ELSE cleaned[Len(cleaned)]))
  /\ UNCHANGED <<pc, title, master_song_list>>
  /\ UNCHANGED run_vars
  /\ UNCHANGED resolve_vars

NextCleanup == CleanupCall

SpecCleanup == InitCleanup /\ [][NextCleanup]_vars

----------------------------------------------------------------------------
(* SpecResolve: one call of find_matching_song on every needle, catalog    *)
(* and candidate list of the pools below                                   *)

\* normalized titles, as collect_playlist_items keys them
ResolveKeys == <<
  <<"A", "b">>,
  <<"b">>,
  <<"a">>,
  <<"b", "a">>,
  <<"c">>,
  <<>>,
  <<"a", "b", "c">>,
  <<"c", "a">>,
  <<"B">> >>

\* normalized input titles, as read_song_list_from_file yields them
ResolveNeedles == <<
  <<"a", "b">>,
  <<"B">>,
  <<>>,
  <<"b", "a">>,
  <<"d">>,
  <<"A", "B", "C">> >>

TrackIds == <<"t1", "t2", "t3", "t4", "t5", "t6", "t7", "t8", "t9">>

\* the catalog item whose title is ResolveKeys[i]
ResolveItem(i) == [name |-> ResolveKeys[i], id |-> TrackIds[i]]

KeyPool == {ResolveKeys[i] : i \in 1..Min(PoolSize, Len(ResolveKeys))}

NeedlePool == {ResolveNeedles[i] : i \in 1..Min(NumNeedles, Len(ResolveNeedles))}

ResolveCatalogs ==
  {[k \in K |-> ResolveItem(CHOOSE i \in DOMAIN ResolveKeys : ResolveKeys[i] = k)] :
     K \in {S \in SUBSET KeyPool : Cardinality(S) <= MaxKeys}}

InitResolve ==
  /\ pc = "find_matching_song"
  /\ song_name \in NeedlePool
  /\ master_song_list \in ResolveCatalogs
  /\ matches = <<>>
  /\ song = None
  /\ RunIdle
  /\ CleanupIdle

\* find_matching_song(song_name, master_song_list)
ResolveCall ==
  /\ pc = "find_matching_song"
  /\ \E ms \in extract(song_name, DOMAIN master_song_list) :
       /\ matches' = ms
       /\ song' = find_matching_song(song_name, master_song_list, ms)
  /\ pc' = "returned"
  /\ UNCHANGED <<song_name, master_song_list>>
  /\ UNCHANGED run_vars
  /\ UNCHANGED cleanup_vars

NextResolve == ResolveCall

SpecResolve == InitResolve /\ [][NextResolve]_vars

----------------------------------------------------------------------------
(* The input file                                                          *)

Whitespace == {" ", "\t", "\n"}

RECURSIVE lstrip(_)
lstrip(s) ==
  IF s # <<>> /\ Head(s) \in Whitespace THEN lstrip(Tail(s)) ELSE s

RECURSIVE rstrip(_)
rstrip(s) ==
  IF s # <<>> /\ s[Len(s)] \in Whitespace
  THEN rstrip(SubSeq(s, 1, Len(s) - 1)) ELSE s

\* str.strip()
strip(s) == rstrip(lstrip(s))

\* the separator between a title and its artist
ArtistSeparator == <<" ", "-", " ">>

\* item.split(" - ")[0] if " - " in item else item
BeforeSeparator(item) ==
  IF is_substring(ArtistSeparator, item)
  THEN LET at == CHOOSE i \in 0..(Len(item) - 3) :
                   /\ SubSeq(item, i + 1, i + 3) = ArtistSeparator
                   /\ \A j \in 0..(i - 1) : SubSeq(item, j + 1, j + 3) # ArtistSeparator
       IN  SubSeq(item, 1, at)
  ELSE item

\* a reader that cuts at the last separator of the line instead of the first
read_song_list_from_file_cut_last(lines) ==
  LET kept == SelectSeq(lines, LAMBDA item : strip(item) # <<>>)
      stripped == [i \in 1..Len(kept) |-> strip(kept[i])]
      cut(item) ==
        IF is_substring(ArtistSeparator, item)
        THEN LET at == CHOOSE i \in 0..(Len(item) - 3) :
                         /\ SubSeq(item, i + 1, i + 3) = ArtistSeparator
                         /\ \A j \in (i + 1)..(Len(item) - 3) :
                              SubSeq(item, j + 1, j + 3) # ArtistSeparator
             IN  SubSeq(item, 1, at)
        ELSE item
  IN  [i \in 1..Len(stripped) |-> song_title_cleanup(cut(stripped[i]))]

\* a reader that filters the empty titles out after the cleanup
read_song_list_from_file_drop_empty(lines) ==
  LET kept == SelectSeq(lines, LAMBDA item : strip(item) # <<>>)
      stripped == [i \in 1..Len(kept) |-> strip(kept[i])]
  IN  SelectSeq([i \in 1..Len(stripped) |->
                   song_title_cleanup(BeforeSeparator(stripped[i]))],
                LAMBDA t : t # <<>>)

\* read_song_list_from_file, given the lines of the file
read_song_list_from_file(lines) ==
  LET kept == SelectSeq(lines, LAMBDA item : strip(item) # <<>>)
      stripped == [i \in 1..Len(kept) |-> strip(kept[i])]
  IN  [i \in 1..Len(stripped) |-> song_title_cleanup(BeforeSeparator(stripped[i]))]

----------------------------------------------------------------------------
(* The providers                                                           *)

\* the methods class Spotify defines
SpotifyMethods == {"init_service", "list_songs_in_playlist", "my_playlists",
                   "create_playlist", "find_or_create_playlist", "playlist_items",
                   "add_song_to_playlist", "add_songs_to_playlist",
                   "playlist_name", "song_name", "song_id"}

\* the methods class YouTube defines
YouTubeMethods == {"init_service", "credentials", "my_playlists",
                   "create_playlist", "find_or_create_playlist", "update_playlist",
                   "playlist_items", "add_video_to_playlist", "delete_playlist"}

\* whether m_svc.<method> exists; a call of a missing one raises AttributeError
HasMethod(svc, method) ==
  IF svc = "spotify" THEN method \in SpotifyMethods ELSE method \in YouTubeMethods

\* what the provider's listing returns for a playlist of the account
PlaylistRef(p) == [id |-> p.id, name |-> p.name]

\* spotipy's current_user_playlists() returns one page of at most 50
SpotifyPageSize == 50

\* spotipy's playlist_tracks() returns pages of at most 100
SpotifyTracksPageSize == 100

\* YouTube.API_MAX_RESULTS, the maxResults of every list request
API_MAX_RESULTS == 100

\* the page the service answers a list request with: the items of the page
\* that starts after `offset`, and whether a next-page marker comes with it
Page(all, size, offset) ==
  [items |-> SubSeq(all, offset + 1, Min(Len(all), offset + size)),
   next  |-> offset + size < Len(all)]

RECURSIVE FollowPages(_, _, _)
\* the list a method builds that extends it page by page while the response
\* carries a next-page marker
FollowPages(all, size, offset) ==
  LET response == Page(all, size, offset)
  IN  IF response.next
      THEN response.items \o FollowPages(all, size, offset + size)
      ELSE response.items

\* my_playlists() answered by the service: Spotify returns the items of the
\* first page, YouTube follows nextPageToken to the last page
my_playlists_remote(svc, acct) ==
  LET all == [i \in 1..Len(acct) |-> PlaylistRef(acct[i])]
  IN  IF svc = "spotify" THEN Page(all, SpotifyPageSize, 0).items
      ELSE FollowPages(all, API_MAX_RESULTS, 0)

\* YouTube.my_playlists is memoized with lru_cache
Memoized(svc, cache) == svc = "youtube" /\ cache.set

\* my_playlists()
my_playlists(svc, acct, cache) ==
  IF Memoized(svc, cache) THEN cache.value ELSE my_playlists_remote(svc, acct)

\* the cache after a my_playlists() that returned
CacheAfter(svc, acct, cache) ==
  IF svc = "youtube" THEN [set |-> TRUE, value |-> my_playlists(svc, acct, cache)]
  ELSE cache

\* playlist_items(playlist_id): both providers extend the list page by page
\* until no next-page marker comes
playlist_items(svc, acct, playlist_id) ==
  LET at == {i \in DOMAIN acct : acct[i].id = playlist_id}
      all == IF at = {} THEN <<>> ELSE acct[CHOOSE i \in at : TRUE].items
  IN  FollowPages(all,
                  IF svc = "spotify" THEN SpotifyTracksPageSize ELSE API_MAX_RESULTS,
                  0)

\* playlist_name(playlist), song_name(item), song_id(item) of class Spotify
Spotify_playlist_name(p) == p.name

Spotify_song_name(item) == item.name

Spotify_song_id(item) == item.id

\* the ids the service gives the playlists it creates, one after the other
NewPlaylistIds == <<"p_new", "p_new2", "p_new3", "p_new4">>

\* the id the service gives the next playlist it creates in the account
NewPlaylistId(acct) ==
  NewPlaylistIds[1 + Cardinality({i \in DOMAIN acct :
                                    \E n \in DOMAIN NewPlaylistIds :
                                      acct[i].id = NewPlaylistIds[n]})]

\* the playlist create_playlist(title) inserts in the account
create_playlist(acct, playlist_title) ==
  [id |-> NewPlaylistId(acct), name |-> playlist_title, items |-> <<>>]

----------------------------------------------------------------------------
(* The catalog builder                                                     *)

MasterMarker == <<"m", "a", "s", "t", "e", "r">>

\* a selection that looks for "master" in the name as it is spelled
find_master_playlists_case_sensitive(svc, playlists) ==
  SelectSeq(playlists,
            LAMBDA p : is_substring(MasterMarker, Spotify_playlist_name(p)))

\* find_master_playlists, given what my_playlists() returned
find_master_playlists(svc, playlists) ==
  SelectSeq(playlists,
            LAMBDA p : is_substring(MasterMarker, lower(Spotify_playlist_name(p))))

RECURSIVE Flatten(_, _, _)
\* the playlist_items list collect_playlist_items extends playlist by playlist
Flatten(svc, acct, playlists) ==
  IF playlists = <<>> THEN <<>>
  ELSE playlist_items(svc, acct, Head(playlists).id)
       \o Flatten(svc, acct, Tail(playlists))

\* a catalog in which the first item seen under a key is the one kept
KeyByTitle_first_wins(svc, items) ==
  LET key(i) == song_title_cleanup(Spotify_song_name(items[i]))
  IN  [k \in {key(i) : i \in DOMAIN items} |->
         items[CHOOSE i \in DOMAIN items :
                 /\ key(i) = k
                 /\ \A j \in DOMAIN items : key(j) = k => i <= j]]

\* a catalog keyed by the titles as the provider gives them
KeyByTitle_raw(svc, items) ==
  LET key(i) == Spotify_song_name(items[i])
  IN  [k \in {key(i) : i \in DOMAIN items} |->
         items[CHOOSE i \in DOMAIN items :
                 /\ key(i) = k
                 /\ \A j \in DOMAIN items : key(j) = k => j <= i]]

\* the dict comprehension of collect_playlist_items: a later item replaces an
\* earlier one under the same key
KeyByTitle(svc, items) ==
  LET key(i) == song_title_cleanup(Spotify_song_name(items[i]))
  IN  [k \in {key(i) : i \in DOMAIN items} |->
         items[CHOOSE i \in DOMAIN items :
                 /\ key(i) = k
                 /\ \A j \in DOMAIN items : key(j) = k => j <= i]]

\* collect_playlist_items
collect_playlist_items(svc, acct, playlists) ==
  KeyByTitle(svc, Flatten(svc, acct, playlists))

----------------------------------------------------------------------------
(* Spec: one run of main, on every file, account and flag of the pools     *)

\* tracks of the account: two of them share a normalized title
RunItems == <<
  [name |-> <<"A", "(", "b", ")">>, id |-> "t1"],
  [name |-> <<"b">>,                id |-> "t2"],
  [name |-> <<"A", "b">>,           id |-> "t3"],
  [name |-> <<"c">>,                id |-> "t4"] >>

\* the playlist name given on the command line
TargetName == <<"T">>

\* playlists an account may hold: two master playlists, one that is not,
\* and one with the target's name
PlaylistPool == {
  [id |-> "p1", name |-> <<"M", "a", "s", "t", "e", "r">>,
   items |-> <<RunItems[1], RunItems[2]>>],
  [id |-> "p2", name |-> <<"m", "y", " ", "M", "A", "S", "T", "E", "R">>,
   items |-> <<RunItems[3]>>],
  [id |-> "p3", name |-> <<"p", "o", "p">>, items |-> <<RunItems[4]>>],
  [id |-> "p4", name |-> TargetName, items |-> <<RunItems[2]>>] }

\* lines song_list.txt may hold
LinePool == {
  <<"a", "b">>,
  <<"b", " ", "-", " ", "x">>,
  <<"c">>,
  <<" ">> }

Accounts == UNION {Arrangements(PlaylistPool, n) : n \in 0..MaxPlaylists}

\* song_list.txt is missing, or there but not readable, or holds lines
Files ==
  {[exists |-> FALSE, readable |-> FALSE, lines |-> <<>>],
   [exists |-> TRUE, readable |-> FALSE, lines |-> <<>>]}
  \cup {[exists |-> TRUE, readable |-> TRUE, lines |-> ls] :
          ls \in UNION {[1..n -> LinePool] : n \in 0..MaxLines}}

\* the track the service holds under a native id
TrackOf(id) == RunItems[CHOOSE i \in DOMAIN RunItems : RunItems[i].id = id]

\* an add that leaves out the ids of the tracks the playlist already holds
AccountAfterAdd_skipping_members(acct, playlist_id, ids) ==
  [i \in DOMAIN acct |->
     IF acct[i].id = playlist_id
     THEN [acct[i] EXCEPT !.items =
             @ \o [j \in DOMAIN SelectSeq(ids, LAMBDA id :
                                             \A k \in DOMAIN acct[i].items :
                                               acct[i].items[k].id # id) |->
                     TrackOf(SelectSeq(ids, LAMBDA id :
                                              \A k \in DOMAIN acct[i].items :
                                                acct[i].items[k].id # id)[j])]]
     ELSE acct[i]]

\* the account after the ids are added to the playlist
AccountAfterAdd(acct, playlist_id, ids) ==
  [i \in DOMAIN acct |->
     IF acct[i].id = playlist_id
     THEN [acct[i] EXCEPT !.items = @ \o [j \in DOMAIN ids |-> TrackOf(ids[j])]]
     ELSE acct[i]]

Call(op) == [op |-> op]

\* parse_args() has run: the flags and the playlist name are given
Init ==
  /\ pc = "read_song_list"
  /\ args \in [dry_run : BOOLEAN, spotify : BOOLEAN, playlist : {TargetName}]
  /\ file \in Files
  /\ account \in Accounts
  /\ song_list = <<>>
  /\ m_svc = "none"
  /\ yt_cache = NoCache
  /\ playlist = None
  /\ master_song_list = <<>>
  /\ idx = 0
  /\ song_ids = <<>>
  /\ log = <<>>
  /\ calls = <<>>
  /\ error = "none"
  /\ ResolveIdle
  /\ CleanupIdle

\* the run ends on an exception
Raise(exception) == pc' = "error" /\ error' = exception

\* open(SONG_LIST_INPUT_FILE, 'r'): the exception it raises, "none" if the
\* file opens
open_error(f) ==
  IF ~f.exists THEN "FileNotFoundError"
  ELSE IF ~f.readable THEN "PermissionError"
  ELSE "none"

\* a main that goes on with no title when the file cannot be opened
ReadSongListSwallowed ==
  /\ pc = "read_song_list"
  /\ song_list' = IF open_error(file) = "none"
                  THEN read_song_list_from_file(file.lines) ELSE <<>>
  /\ pc' = "initialize_service"
  /\ UNCHANGED <<args, file, m_svc, account, yt_cache, playlist,
                 master_song_list, idx, song_ids, log, calls, error>>
  /\ UNCHANGED resolve_vars
  /\ UNCHANGED cleanup_vars

\* main, line 118: song_list = read_song_list_from_file()
ReadSongList ==
  /\ pc = "read_song_list"
  /\ IF open_error(file) = "none"
     THEN /\ song_list' = read_song_list_from_file(file.lines)
          /\ pc' = "initialize_service"
          /\ UNCHANGED error
     ELSE /\ Raise(open_error(file))
          /\ UNCHANGED song_list
  /\ UNCHANGED <<args, file, m_svc, account, yt_cache, playlist,
                 master_song_list, idx, song_ids, log, calls>>
  /\ UNCHANGED resolve_vars
  /\ UNCHANGED cleanup_vars

\* main, line 120: m_svc = initialize_service(args); init_service() returns
\* or raises
initialize_service ==
  /\ pc = "initialize_service"
  /\ calls' = Append(calls, Call("init_service"))
  /\ \/ /\ m_svc' = IF args.spotify THEN "spotify" ELSE "youtube"
        /\ pc' = "get_playlist"
        /\ UNCHANGED error
     \/ /\ Raise("ProviderError")
        /\ UNCHANGED m_svc
  /\ UNCHANGED <<args, file, song_list, account, yt_cache, playlist,
                 master_song_list, idx, song_ids, log>>
  /\ UNCHANGED resolve_vars
  /\ UNCHANGED cleanup_vars

\* find_or_create_playlist(title, description, privacy_status) of either
\* provider; the call is logged with the id of the playlist it returned, and
\* return_to is where the caller goes on when it returns
find_or_create_playlist(playlist_title, description, privacy_status, return_to) ==
  LET playlists == my_playlists(m_svc, account, yt_cache)
      found == {i \in DOMAIN playlists : playlists[i].name = playlist_title}
      first == playlists[CHOOSE i \in found : \A j \in found : i <= j]
      begun(returned) ==
        calls \o <<[op |-> "find_or_create_playlist", title |-> playlist_title,
                    description |-> description,
                    privacy_status |-> privacy_status,
                    returned |-> returned],
                   Call("my_playlists")>>
      created == [op |-> "create_playlist", title |-> playlist_title,
                  description |-> description,
                  privacy_status |-> privacy_status]
  IN  \/ \* my_playlists() raises
         /\ ~Memoized(m_svc, yt_cache)
         /\ calls' = begun("raised")
         /\ Raise("ProviderError")
         /\ UNCHANGED <<playlist, account, yt_cache>>
      \/ \* a playlist of that name exists: the first one is returned
         /\ found # {}
         /\ playlist' = first
         /\ calls' = begun(first.id)
         /\ yt_cache' = CacheAfter(m_svc, account, yt_cache)
         /\ pc' = return_to
         /\ UNCHANGED <<account, error>>
      \/ \* none exists: create_playlist(title, description, privacy_status)
         /\ found = {}
         /\ yt_cache' = CacheAfter(m_svc, account, yt_cache)
         /\ \/ /\ account' = Append(account, create_playlist(account, playlist_title))
               /\ playlist' = PlaylistRef(create_playlist(account, playlist_title))
               /\ calls' = Append(begun(NewPlaylistId(account)), created)
               /\ pc' = return_to
               /\ UNCHANGED error
            \/ /\ calls' = Append(begun("raised"), created)
               /\ Raise("ProviderError")
               /\ UNCHANGED <<playlist, account>>

\* get_playlist that looks the playlist up in a dry run too
get_playlist_always ==
  /\ pc = "get_playlist"
  /\ find_or_create_playlist(args.playlist, "None", "public", "get_master_song_list")
  /\ UNCHANGED <<args, file, song_list, m_svc, master_song_list, idx, song_ids, log>>
  /\ UNCHANGED resolve_vars
  /\ UNCHANGED cleanup_vars

\* main, line 122: playlist = get_playlist(m_svc, args)
get_playlist ==
  /\ pc = "get_playlist"
  /\ IF args.dry_run
     THEN /\ playlist' = [id |-> 1]
          /\ pc' = "get_master_song_list"
          /\ UNCHANGED <<account, yt_cache, calls, error>>
     ELSE find_or_create_playlist(args.playlist, "None", "public",
                                  "get_master_song_list")
  /\ UNCHANGED <<args, file, song_list, m_svc, master_song_list, idx, song_ids, log>>
  /\ UNCHANGED resolve_vars
  /\ UNCHANGED cleanup_vars

\* a catalog builder that notes a failed playlist_items() and goes on to the
\* loop with no catalog
get_master_song_list_carries_on ==
  /\ pc = "get_master_song_list"
  /\ LET playlists == my_playlists(m_svc, account, yt_cache)
         listed == Append(calls, Call("my_playlists"))
         masters == find_master_playlists(m_svc, playlists)
         fetch(n) == [i \in 1..n |-> [op |-> "playlist_items",
                                       playlist_id |-> masters[i].id]]
     IN  /\ HasMethod(m_svc, "playlist_name")
         /\ yt_cache' = CacheAfter(m_svc, account, yt_cache)
         /\ \/ /\ master_song_list' =
                    collect_playlist_items(m_svc, account, masters)
               /\ calls' = listed \o fetch(Len(masters))
               /\ UNCHANGED error
            \/ \E n \in 1..Len(masters) :
                 /\ calls' = listed \o fetch(n)
                 /\ error' = "ProviderError"
                 /\ UNCHANGED master_song_list
         /\ pc' = "loop"
  /\ UNCHANGED <<args, file, song_list, m_svc, account, playlist, idx, song_ids, log>>
  /\ UNCHANGED resolve_vars
  /\ UNCHANGED cleanup_vars

\* main, line 123: master_song_list = get_master_song_list(m_svc)
get_master_song_list ==
  /\ pc = "get_master_song_list"
  /\ LET playlists == my_playlists(m_svc, account, yt_cache)
         listed == Append(calls, Call("my_playlists"))
         masters == find_master_playlists(m_svc, playlists)
         fetch(n) == [i \in 1..n |-> [op |-> "playlist_items",
                                       playlist_id |-> masters[i].id]]
     IN  \/ \* my_playlists() raises
            /\ ~Memoized(m_svc, yt_cache)
            /\ calls' = listed
            /\ Raise("ProviderError")
            /\ UNCHANGED <<master_song_list, yt_cache>>
         \/ \* my_playlists() returns
            /\ yt_cache' = CacheAfter(m_svc, account, yt_cache)
            /\ IF playlists # <<>> /\ ~HasMethod(m_svc, "playlist_name")
               THEN /\ calls' = listed
                    /\ Raise("AttributeError")
                    /\ UNCHANGED master_song_list
               ELSE \/ \* every playlist_items() returns
                       /\ IF Flatten(m_svc, account, masters) # <<>>
                             /\ ~HasMethod(m_svc, "song_name")
                          THEN /\ Raise("AttributeError")
                               /\ UNCHANGED master_song_list
                          ELSE /\ master_song_list' =
                                    collect_playlist_items(m_svc, account, masters)
                               /\ pc' = "loop"
                               /\ UNCHANGED error
                       /\ calls' = listed \o fetch(Len(masters))
                    \/ \* the n-th playlist_items() raises
                       \E n \in 1..Len(masters) :
                         /\ calls' = listed \o fetch(n)
                         /\ Raise("ProviderError")
                         /\ UNCHANGED master_song_list
  /\ UNCHANGED <<args, file, song_list, m_svc, account, playlist, idx, song_ids, log>>
  /\ UNCHANGED resolve_vars
  /\ UNCHANGED cleanup_vars

\* what one pass of the loop body does with the title and the song found
LoopBody(name, found) ==
  IF found = None
  THEN /\ log' = Append(log, [title |-> name, song |-> found,
                              disposition |-> "not found"])
       /\ idx' = idx + 1
       /\ UNCHANGED <<song_ids, pc, error>>
  ELSE IF ~HasMethod(m_svc, "song_id")
  THEN /\ Raise("AttributeError")
       /\ UNCHANGED <<log, idx, song_ids>>
  ELSE IF args.dry_run
  THEN /\ log' = Append(log, [title |-> name, song |-> found,
                              disposition |-> "dry-run found"])
       /\ idx' = idx + 1
       /\ UNCHANGED <<song_ids, pc, error>>
  ELSE /\ song_ids' = Append(song_ids, Spotify_song_id(found))
       /\ log' = Append(log, [title |-> name, song |-> found,
                              disposition |-> "added"])
       /\ idx' = idx + 1
       /\ UNCHANGED <<pc, error>>

\* a loop that stops at the first title it cannot find
LoopStepBreakOnMiss ==
  /\ pc = "loop"
  /\ idx < Len(song_list)
  /\ \E ms \in extract(song_list[idx + 1], DOMAIN master_song_list) :
       LET found == find_matching_song(song_list[idx + 1], master_song_list, ms)
       IN  IF found = None
           THEN /\ idx' = Len(song_list)
                /\ UNCHANGED <<log, song_ids, pc, error>>
           ELSE LoopBody(song_list[idx + 1], found)
  /\ UNCHANGED <<args, file, song_list, m_svc, account, yt_cache, playlist,
                 master_song_list, calls>>
  /\ UNCHANGED resolve_vars
  /\ UNCHANGED cleanup_vars

\* a loop that adds each song to the playlist as soon as it is found
LoopStepAddEach ==
  /\ pc = "loop"
  /\ idx < Len(song_list)
  /\ \E ms \in extract(song_list[idx + 1], DOMAIN master_song_list) :
       LET found == find_matching_song(song_list[idx + 1], master_song_list, ms)
       IN  /\ LoopBody(song_list[idx + 1], found)
           /\ calls' = IF found = None \/ args.dry_run THEN calls
                        ELSE Append(calls, [op |-> "add_songs_to_playlist",
                                            playlist_id |-> playlist.id,
                                            song_ids |-> <<Spotify_song_id(found)>>])
  /\ UNCHANGED <<args, file, song_list, m_svc, account, yt_cache, playlist,
                 master_song_list>>
  /\ UNCHANGED resolve_vars
  /\ UNCHANGED cleanup_vars

\* a loop whose resolver takes the song it returns out of the catalog
LoopStepConsuming ==
  /\ pc = "loop"
  /\ idx < Len(song_list)
  /\ \E ms \in extract(song_list[idx + 1], DOMAIN master_song_list) :
       LET found == find_matching_song(song_list[idx + 1], master_song_list, ms)
           left == {k \in DOMAIN master_song_list : master_song_list[k] # found}
       IN  /\ LoopBody(song_list[idx + 1], found)
           /\ master_song_list' = [k \in left |-> master_song_list[k]]
  /\ UNCHANGED <<args, file, song_list, m_svc, account, yt_cache, playlist, calls>>
  /\ UNCHANGED resolve_vars
  /\ UNCHANGED cleanup_vars

\* main, lines 126-136: one pass of the loop over song_list
LoopStep ==
  /\ pc = "loop"
  /\ idx < Len(song_list)
  /\ \E ms \in extract(song_list[idx + 1], DOMAIN master_song_list) :
       LoopBody(song_list[idx + 1],
                find_matching_song(song_list[idx + 1], master_song_list, ms))
  /\ UNCHANGED <<args, file, song_list, m_svc, account, yt_cache, playlist,
                 master_song_list, calls>>
  /\ UNCHANGED resolve_vars
  /\ UNCHANGED cleanup_vars

\* m_svc.add_songs_to_playlist(playlist["id"], song_ids)
add_songs_to_playlist ==
  IF ~HasMethod(m_svc, "add_songs_to_playlist")
  THEN /\ Raise("AttributeError")
       /\ UNCHANGED <<account, calls>>
  ELSE /\ calls' = Append(calls, [op |-> "add_songs_to_playlist",
                                  playlist_id |-> playlist.id,
                                  song_ids |-> song_ids])
       /\ \/ /\ account' = AccountAfterAdd(account, playlist.id, song_ids)
             /\ pc' = "done"
             /\ UNCHANGED error
          \/ /\ Raise("ProviderError")
             /\ UNCHANGED account

\* a submission that does not look at song_ids
SubmitUnguarded ==
  /\ pc = "loop"
  /\ idx = Len(song_list)
  /\ IF args.dry_run
     THEN pc' = "done" /\ UNCHANGED <<account, calls, error>>
     ELSE add_songs_to_playlist
  /\ UNCHANGED <<args, file, song_list, m_svc, yt_cache, playlist,
                 master_song_list, idx, song_ids, log>>
  /\ UNCHANGED resolve_vars
  /\ UNCHANGED cleanup_vars

\* a submission of the ids last title first
SubmitReversed ==
  /\ pc = "loop"
  /\ idx = Len(song_list)
  /\ IF song_ids = <<>>
     THEN pc' = "done" /\ UNCHANGED <<account, calls, error>>
     ELSE /\ calls' = Append(calls,
               [op |-> "add_songs_to_playlist",
                playlist_id |-> playlist.id,
                song_ids |-> [i \in DOMAIN song_ids |->
                                song_ids[Len(song_ids) + 1 - i]]])
          /\ pc' = "done"
          /\ UNCHANGED <<account, error>>
  /\ UNCHANGED <<args, file, song_list, m_svc, yt_cache, playlist,
                 master_song_list, idx, song_ids, log>>
  /\ UNCHANGED resolve_vars
  /\ UNCHANGED cleanup_vars

\* main, lines 138-139: the loop is over; the ids, if any, are submitted
Submit ==
  /\ pc = "loop"
  /\ idx = Len(song_list)
  /\ IF song_ids = <<>>
     THEN pc' = "done" /\ UNCHANGED <<account, calls, error>>
     ELSE add_songs_to_playlist
  /\ UNCHANGED <<args, file, song_list, m_svc, yt_cache, playlist,
                 master_song_list, idx, song_ids, log>>
  /\ UNCHANGED resolve_vars
  /\ UNCHANGED cleanup_vars

Next ==
  \/ ReadSongList
  \/ initialize_service
  \/ get_playlist
  \/ get_master_song_list
  \/ LoopStep
  \/ Submit

Spec == Init /\ [][Next]_vars

----------------------------------------------------------------------------
(* SpecSink: find_or_create_playlist called up to MaxFinds times on one    *)
(* instance of either provider                                             *)

\* the titles asked for: the name of a playlist of the pool, and the same
\* name in lower case
SinkTitles == {TargetName, <<"t">>}

InitSink ==
  /\ pc = "find_or_create_playlist"
  /\ m_svc \in {"spotify", "youtube"}
  /\ account \in Accounts
  /\ args = [dry_run |-> FALSE, spotify |-> m_svc = "spotify", playlist |-> <<>>]
  /\ file = [exists |-> FALSE, readable |-> FALSE, lines |-> <<>>]
  /\ song_list = <<>>
  /\ yt_cache = NoCache
  /\ playlist = None
  /\ master_song_list = <<>>
  /\ idx = 0
  /\ song_ids = <<>>
  /\ log = <<>>
  /\ calls = <<>>
  /\ error = "none"
  /\ ResolveIdle
  /\ CleanupIdle

\* one call m_svc.find_or_create_playlist(title, privacy_status=...)
SinkCall ==
  /\ pc = "find_or_create_playlist"
  /\ Cardinality({i \in DOMAIN calls : calls[i].op = "find_or_create_playlist"})
       < MaxFinds
  /\ \E t \in SinkTitles, v \in {"public", "private"} :
       find_or_create_playlist(t, "None", v, "find_or_create_playlist")
  /\ UNCHANGED <<args, file, song_list, m_svc, master_song_list, idx, song_ids, log>>
  /\ UNCHANGED resolve_vars
  /\ UNCHANGED cleanup_vars

NextSink == SinkCall

SpecSink == InitSink /\ [][NextSink]_vars

----------------------------------------------------------------------------
(* SpecPaging: my_playlists() and playlist_items(id) called on accounts    *)
(* that hold more than one page of playlists or of items                   *)

\* the bare listing calls made on one instance
MaxListings == 2

\* the most playlists an account holds: two more than Spotify's first page
MaxAccountLen == 52

\* the most items a playlist holds: one more than a page of either provider
MaxItemsLen == 101

\* an account of n playlists, the first of which holds k items
PagedAccount(n, k) ==
  [i \in 1..n |->
     [id    |-> ToString(i),
      name  |-> <<"p">>,
      items |-> IF i = 1
                THEN [j \in 1..k |-> [name |-> <<"s">>, id |-> ToString(j)]]
                ELSE <<>>]]

PagedAccounts ==
  {PagedAccount(n, 0) : n \in 0..MaxAccountLen}
  \cup {PagedAccount(1, k) : k \in 0..MaxItemsLen}

InitPaging ==
  /\ pc = "listing"
  /\ m_svc \in {"spotify", "youtube"}
  /\ account \in PagedAccounts
  /\ args = [dry_run |-> FALSE, spotify |-> m_svc = "spotify", playlist |-> <<>>]
  /\ file = [exists |-> FALSE, readable |-> FALSE, lines |-> <<>>]
  /\ song_list = <<>>
  /\ yt_cache = NoCache
  /\ playlist = None
  /\ master_song_list = <<>>
  /\ idx = 0
  /\ song_ids = <<>>
  /\ log = <<>>
  /\ calls = <<>>
  /\ error = "none"
  /\ ResolveIdle
  /\ CleanupIdle

\* one call m_svc.my_playlists(); what it returned is noted in log
my_playlists_call ==
  /\ pc = "listing"
  /\ Len(calls) < MaxListings
  /\ calls' = Append(calls, Call("my_playlists"))
  /\ \/ /\ log' = Append(log, [op |-> "my_playlists", playlist_id |-> "none",
                               returned |-> my_playlists(m_svc, account, yt_cache)])
        /\ yt_cache' = CacheAfter(m_svc, account, yt_cache)
        /\ UNCHANGED <<pc, error>>
     \/ /\ ~Memoized(m_svc, yt_cache)
        /\ Raise("ProviderError")
        /\ UNCHANGED <<log, yt_cache>>
  /\ UNCHANGED <<args, file, song_list, m_svc, account, playlist,
                 master_song_list, idx, song_ids>>
  /\ UNCHANGED resolve_vars
  /\ UNCHANGED cleanup_vars

\* one call m_svc.playlist_items(playlist_id) on the first or the last
\* playlist of the account
playlist_items_call ==
  /\ pc = "listing"
  /\ Len(calls) < MaxListings
  /\ \E i \in DOMAIN account \cap {1, Len(account)} :
       /\ calls' = Append(calls, [op |-> "playlist_items", id |-> account[i].id])
       /\ \/ /\ log' = Append(log, [op |-> "playlist_items",
                                    playlist_id |-> account[i].id,
                                    returned |-> playlist_items(m_svc, account,
                                                                account[i].id)])
             /\ UNCHANGED <<pc, error>>
          \/ /\ Raise("ProviderError")
             /\ UNCHANGED log
  /\ UNCHANGED <<args, file, song_list, m_svc, account, yt_cache, playlist,
                 master_song_list, idx, song_ids>>
  /\ UNCHANGED resolve_vars
  /\ UNCHANGED cleanup_vars

NextPaging == my_playlists_call \/ playlist_items_call

SpecPaging == InitPaging /\ [][NextPaging]_vars

----------------------------------------------------------------------------
(* SpecRerun: main run again, on the same song_list.txt and with the same  *)
(* flags, after a run that ended normally                                  *)

\* the runs of main made one after the other
MaxRuns == 2

\* the most lines song_list.txt holds when main is run repeatedly
MaxRerunLines == 2

InitRerun ==
  /\ Init
  /\ Len(file.lines) <= MaxRerunLines

\* the runs begun so far
Runs == 1 + Cardinality({i \in DOMAIN calls : calls[i].op = "main"})

\* the process has exited normally and the script is started again: a new
\* process holds none of the values of the last one; the account, the file
\* and the command line are what they were, and what was printed stays on
\* the terminal
Rerun ==
  /\ pc = "done"
  /\ Runs < MaxRuns
  /\ pc' = "read_song_list"
  /\ calls' = Append(calls, Call("main"))
  /\ song_list' = <<>>
  /\ m_svc' = "none"
  /\ yt_cache' = NoCache
  /\ playlist' = None
  /\ master_song_list' = <<>>
  /\ idx' = 0
  /\ song_ids' = <<>>
  /\ UNCHANGED <<args, file, account, log, error>>
  /\ UNCHANGED resolve_vars
  /\ UNCHANGED cleanup_vars

NextRerun == Next \/ Rerun

SpecRerun == InitRerun /\ [][NextRerun]_vars

----------------------------------------------------------------------------
(* SpecReset: reset_playlist(args, m_svc, playlist), called once.  The     *)
(* function and the provider's delete_songs_from_playlist are described by *)
(* the specification and pinned down by test_reset_playlist_*.             *)

\* the most items the target playlist holds before the reset
MaxResetItems == 2

\* what the user types at the confirmation prompt
Answers == {"y", "n"}

\* the target playlist, holding the items given, and a playlist beside it
ResetAccount(items) ==
  <<[id |-> "p4", name |-> TargetName, items |-> items],
    [id |-> "p3", name |-> <<"p", "o", "p">>, items |-> <<RunItems[4]>>]>>

ResetAccounts ==
  {ResetAccount(items) :
     items \in UNION {[1..n -> {RunItems[i] : i \in DOMAIN RunItems}] :
                        n \in 0..MaxResetItems}}

InitReset ==
  /\ pc = "reset_playlist"
  /\ args \in [dry_run : BOOLEAN, reset : BOOLEAN, spotify : BOOLEAN,
                playlist : {TargetName}]
  /\ m_svc = IF args.spotify THEN "spotify" ELSE "youtube"
  /\ account \in ResetAccounts
  /\ playlist = PlaylistRef(account[1])
  /\ file = [exists |-> FALSE, readable |-> FALSE, lines |-> <<>>]
  /\ song_list = <<>>
  /\ yt_cache = NoCache
  /\ master_song_list = <<>>
  /\ idx = 0
  /\ song_ids = <<>>
  /\ log = <<>>
  /\ calls = <<>>
  /\ error = "none"
  /\ ResolveIdle
  /\ CleanupIdle

\* the account after m_svc.delete_songs_from_playlist(playlist, items)
delete_songs_from_playlist(acct, playlist_id, items) ==
  [i \in DOMAIN acct |->
     IF acct[i].id = playlist_id
     THEN [acct[i] EXCEPT !.items =
             SelectSeq(@, LAMBDA item : \A j \in DOMAIN items : items[j] # item)]
     ELSE acct[i]]

\* a reset that deletes the items it read without asking
reset_playlist_unasked ==
  /\ pc = "reset_playlist"
  /\ LET items == playlist_items(m_svc, account, playlist.id)
     IN  IF args.dry_run
         THEN pc' = "done" /\ UNCHANGED <<account, calls, error>>
         ELSE /\ calls' = calls \o <<[op |-> "playlist_items",
                                      playlist_id |-> playlist.id,
                                      returned |-> items],
                                     [op |-> "delete_songs_from_playlist",
                                      playlist_id |-> playlist.id,
                                      items |-> items]>>
              /\ account' = delete_songs_from_playlist(account, playlist.id, items)
              /\ pc' = "done"
              /\ UNCHANGED error
  /\ UNCHANGED <<args, file, song_list, m_svc, yt_cache, playlist,
                 master_song_list, idx, song_ids, log>>
  /\ UNCHANGED resolve_vars
  /\ UNCHANGED cleanup_vars

\* reset_playlist(args, m_svc, playlist)
reset_playlist ==
  /\ pc = "reset_playlist"
  /\ LET items == playlist_items(m_svc, account, playlist.id)
         read == [op |-> "playlist_items", playlist_id |-> playlist.id,
                  returned |-> items]
         prompt(answer) == [op |-> "input", returned |-> answer]
         delete == [op |-> "delete_songs_from_playlist",
                    playlist_id |-> playlist.id, items |-> items]
         delete_after(made) ==
           /\ calls' = Append(made, delete)
           /\ \/ /\ account' = delete_songs_from_playlist(account, playlist.id,
                                                           items)
                 /\ pc' = "done"
                 /\ UNCHANGED error
              \/ /\ Raise("ProviderError")
                 /\ UNCHANGED account
     IN  IF args.dry_run
         THEN \* nothing is read and nothing is deleted
              pc' = "done" /\ UNCHANGED <<account, calls, error>>
         ELSE \/ \* playlist_items() raises
                 /\ calls' = Append(calls, [op |-> "playlist_items",
                                            playlist_id |-> playlist.id])
                 /\ Raise("ProviderError")
                 /\ UNCHANGED account
              \/ \* playlist_items() returns
                 IF items = <<>>
                 THEN /\ calls' = Append(calls, read)
                      /\ pc' = "done"
                      /\ UNCHANGED <<account, error>>
                 ELSE IF args.reset
                 THEN delete_after(Append(calls, read))
                 ELSE \E answer \in Answers :
                        IF answer = "y"
                        THEN delete_after(calls \o <<read, prompt(answer)>>)
                        ELSE /\ calls' = calls \o <<read, prompt(answer)>>
                             /\ pc' = "done"
                             /\ UNCHANGED <<account, error>>
  /\ UNCHANGED <<args, file, song_list, m_svc, yt_cache, playlist,
                 master_song_list, idx, song_ids, log>>
  /\ UNCHANGED resolve_vars
  /\ UNCHANGED cleanup_vars

NextReset == reset_playlist

SpecReset == InitReset /\ [][NextReset]_vars

----------------------------------------------------------------------------
(* SpecNoise: one run of main on files in which some lines hold noise      *)
(* characters only                                                         *)

\* the most lines such a file holds
MaxNoiseLines == 2

\* "()", a typographic quote and a comma, a plain title, an empty line
NoiseLinePool == {
  <<"(", ")", "\n">>,
  <<"rsquo", ",", "\n">>,
  <<"b", "\n">>,
  <<"\n">> }

NoiseFiles ==
  {[exists |-> TRUE, readable |-> TRUE, lines |-> ls] :
     ls \in UNION {[1..n -> NoiseLinePool] : n \in 0..MaxNoiseLines}}

InitNoise ==
  /\ pc = "read_song_list"
  /\ args \in [dry_run : BOOLEAN, spotify : BOOLEAN, playlist : {TargetName}]
  /\ file \in NoiseFiles
  /\ account \in Accounts
  /\ song_list = <<>>
  /\ m_svc = "none"
  /\ yt_cache = NoCache
  /\ playlist = None
  /\ master_song_list = <<>>
  /\ idx = 0
  /\ song_ids = <<>>
  /\ log = <<>>
  /\ calls = <<>>
  /\ error = "none"
  /\ ResolveIdle
  /\ CleanupIdle

SpecNoise == InitNoise /\ [][Next]_vars

----------------------------------------------------------------------------
(* SpecVariant: the batched synchronizer run with the default provider,    *)
(* and then the YouTube-only script (create_youtube_playlisst.py) run on   *)
(* the same song_list.txt, flags and account                               *)

\* the most lines song_list.txt holds when both scripts are run
MaxVariantLines == 2

\* the characters the variant's song_title_cleanup deletes: no arrow glyph
yt_NoiseChars == {"(", ")", "rsquo", ",", "'"}

\* song_title_cleanup of create_youtube_playlisst.py
yt_song_title_cleanup(song_title) ==
  translate(song_title, [c \in yt_NoiseChars |-> <<>>])

\* read_song_list_from_file of create_youtube_playlisst.py
yt_read_song_list_from_file(lines) ==
  LET kept == SelectSeq(lines, LAMBDA item : strip(item) # <<>>)
      stripped == [i \in 1..Len(kept) |-> strip(kept[i])]
  IN  [i \in 1..Len(stripped) |-> yt_song_title_cleanup(BeforeSeparator(stripped[i]))]

\* playlist["snippet"]["title"], item["snippet"]["title"] and
\* video["snippet"]["resourceId"]["videoId"]
YouTube_title(p) == p.name

YouTube_videoId(video) == video.id

\* find_master_playlists of create_youtube_playlisst.py
yt_find_master_playlists(playlists) ==
  SelectSeq(playlists, LAMBDA p : is_substring(MasterMarker, lower(YouTube_title(p))))

\* collect_playlist_items of create_youtube_playlisst.py
yt_collect_playlist_items(acct, playlists) ==
  LET items == Flatten("youtube", acct, playlists)
      key(i) == yt_song_title_cleanup(YouTube_title(items[i]))
  IN  [k \in {key(i) : i \in DOMAIN items} |->
         items[CHOOSE i \in DOMAIN items :
                 /\ key(i) = k
                 /\ \A j \in DOMAIN items : key(j) = k => j <= i]]

RECURSIVE yt_WalkMatches(_, _, _, _)
\* the for loop of find_matching_video from candidate i on
yt_WalkMatches(needle, catalog, ms, i) ==
  IF i > Len(ms) THEN None
  ELSE IF is_substring(lower(needle), lower(yt_song_title_cleanup(ms[i])))
  THEN catalog[ms[i]]
  ELSE yt_WalkMatches(needle, catalog, ms, i + 1)

\* find_matching_video, given the candidates process.extract returned
find_matching_video(needle, catalog, ms) ==
  IF ms = <<>> THEN None ELSE yt_WalkMatches(needle, catalog, ms, 1)

InitVariant ==
  /\ Init
  /\ ~args.spotify
  /\ Len(file.lines) <= MaxVariantLines

\* the batched synchronizer has run
BatchedEnded == {i \in DOMAIN calls : calls[i].op = "create_youtube_playlisst.py"}

\* the first script has exited, normally or on an exception, and the
\* YouTube-only script is started: parse_args() of the same command line
yt_main ==
  /\ pc \in {"done", "error"}
  /\ BatchedEnded = {}
  /\ calls' = Append(calls, [op |-> "create_youtube_playlisst.py", after |-> error])
  /\ pc' = "yt_read_song_list"
  /\ error' = "none"
  /\ song_list' = <<>>
  /\ m_svc' = "none"
  /\ yt_cache' = NoCache
  /\ playlist' = None
  /\ master_song_list' = <<>>
  /\ idx' = 0
  /\ song_ids' = <<>>
  /\ UNCHANGED <<args, file, account, log>>
  /\ UNCHANGED resolve_vars
  /\ UNCHANGED cleanup_vars

\* main of the variant, line 104: song_list = read_song_list_from_file()
yt_ReadSongList ==
  /\ pc = "yt_read_song_list"
  /\ IF open_error(file) = "none"
     THEN /\ song_list' = yt_read_song_list_from_file(file.lines)
          /\ pc' = "yt_init_service"
          /\ UNCHANGED error
     ELSE /\ Raise(open_error(file))
          /\ UNCHANGED song_list
  /\ UNCHANGED <<args, file, m_svc, account, yt_cache, playlist,
                 master_song_list, idx, song_ids, log, calls>>
  /\ UNCHANGED resolve_vars
  /\ UNCHANGED cleanup_vars

\* lines 106-107: yt = YouTube(TOKEN_FILE); yt.init_service()
yt_init_service ==
  /\ pc = "yt_init_service"
  /\ calls' = Append(calls, Call("init_service"))
  /\ \/ /\ m_svc' = "youtube"
        /\ pc' = "yt_get_playlist"
        /\ UNCHANGED error
     \/ /\ Raise("ProviderError")
        /\ UNCHANGED m_svc
  /\ UNCHANGED <<args, file, song_list, account, yt_cache, playlist,
                 master_song_list, idx, song_ids, log>>
  /\ UNCHANGED resolve_vars
  /\ UNCHANGED cleanup_vars

\* line 109: playlist = get_playlist(yt, args)
yt_get_playlist ==
  /\ pc = "yt_get_playlist"
  /\ IF args.dry_run
     THEN /\ playlist' = [id |-> 1]
          /\ pc' = "yt_get_master_song_list"
          /\ UNCHANGED <<account, yt_cache, calls, error>>
     ELSE find_or_create_playlist(args.playlist, "None", "private",
                                  "yt_get_master_song_list")
  /\ UNCHANGED <<args, file, song_list, m_svc, master_song_list, idx, song_ids, log>>
  /\ UNCHANGED resolve_vars
  /\ UNCHANGED cleanup_vars

\* line 110: master_song_list = get_master_song_list(yt)
yt_get_master_song_list ==
  /\ pc = "yt_get_master_song_list"
  /\ LET playlists == my_playlists(m_svc, account, yt_cache)
         listed == Append(calls, Call("my_playlists"))
         masters == yt_find_master_playlists(playlists)
         fetch(n) == [i \in 1..n |-> [op |-> "playlist_items",
                                       playlist_id |-> masters[i].id]]
     IN  \/ \* my_playlists() raises
            /\ ~Memoized(m_svc, yt_cache)
            /\ calls' = listed
            /\ Raise("ProviderError")
            /\ UNCHANGED <<master_song_list, yt_cache>>
         \/ \* every call returns
            /\ yt_cache' = CacheAfter(m_svc, account, yt_cache)
            /\ master_song_list' = yt_collect_playlist_items(account, masters)
            /\ calls' = listed \o fetch(Len(masters))
            /\ pc' = "yt_loop"
            /\ UNCHANGED error
         \/ \* the n-th playlist_items() raises
            \E n \in 1..Len(masters) :
              /\ yt_cache' = CacheAfter(m_svc, account, yt_cache)
              /\ calls' = listed \o fetch(n)
              /\ Raise("ProviderError")
              /\ UNCHANGED master_song_list
  /\ UNCHANGED <<args, file, song_list, m_svc, account, playlist, idx, song_ids, log>>
  /\ UNCHANGED resolve_vars
  /\ UNCHANGED cleanup_vars

\* lines 112-122: one pass of the loop; a video found outside a dry run is
\* added to the playlist at once
yt_LoopStep ==
  /\ pc = "yt_loop"
  /\ idx < Len(song_list)
  /\ \E ms \in extract(song_list[idx + 1], DOMAIN master_song_list) :
       LET name == song_list[idx + 1]
           video == find_matching_video(name, master_song_list, ms)
           printed(disposition) ==
             /\ log' = Append(log, [title |-> name, song |-> video,
                                    disposition |-> disposition])
             /\ idx' = idx + 1
             /\ UNCHANGED <<pc, error>>
       IN  IF video = None
           THEN printed("not found") /\ UNCHANGED <<account, calls>>
           ELSE IF args.dry_run
           THEN printed("dry-run found") /\ UNCHANGED <<account, calls>>
           ELSE /\ calls' = Append(calls, [op |-> "add_video_to_playlist",
                                           playlist_id |-> playlist.id,
                                           video_id |-> YouTube_videoId(video)])
                /\ \/ /\ account' = AccountAfterAdd(account, playlist.id,
                                                    <<YouTube_videoId(video)>>)
                      /\ printed("added")
                   \/ /\ Raise("ProviderError")
                      /\ UNCHANGED <<account, log, idx>>
  /\ UNCHANGED <<args, file, song_list, m_svc, yt_cache, playlist,
                 master_song_list, song_ids>>
  /\ UNCHANGED resolve_vars
  /\ UNCHANGED cleanup_vars

\* the loop is over and main returns
yt_Return ==
  /\ pc = "yt_loop"
  /\ idx = Len(song_list)
  /\ pc' = "done"
  /\ UNCHANGED <<args, file, song_list, m_svc, account, yt_cache, playlist,
                 master_song_list, idx, song_ids, log, calls, error>>
  /\ UNCHANGED resolve_vars
  /\ UNCHANGED cleanup_vars

NextVariant ==
  \/ Next
  \/ yt_main
  \/ yt_ReadSongList
  \/ yt_init_service
  \/ yt_get_playlist
  \/ yt_get_master_song_list
  \/ yt_LoopStep
  \/ yt_Return

SpecVariant == InitVariant /\ [][NextVariant]_vars

----------------------------------------------------------------------------
(* SpecCredentials: YouTube.credentials() called up to MaxCredentialsCalls *)
(* times, by one process after the other, on the token file the calls      *)
(* before left, while the stored token may expire in between.  Here `file` *)
(* is token.json: whether it exists, the credentials it stores, and how    *)
(* many times it has been written.                                         *)

MaxCredentialsCalls == 4

\* the credentials a token file can store: a valid token is not expired
StoredCredentials ==
  {c \in [valid : BOOLEAN, expired : BOOLEAN, refresh_token : BOOLEAN] :
     c.valid => ~c.expired}

\* what creds.refresh(Request()) makes of the credentials when it succeeds
Refreshed(creds) == [creds EXCEPT !.valid = TRUE, !.expired = FALSE]

InitCredentials ==
  /\ pc = "credentials"
  /\ m_svc = "youtube"
  /\ file \in {[exists |-> FALSE, creds |-> None, writes |-> 0]}
              \cup {[exists |-> TRUE, creds |-> c, writes |-> 0] :
                      c \in StoredCredentials}
  /\ args = [dry_run |-> FALSE, spotify |-> FALSE, playlist |-> <<>>]
  /\ account = <<>>
  /\ song_list = <<>>
  /\ yt_cache = NoCache
  /\ playlist = None
  /\ master_song_list = <<>>
  /\ idx = 0
  /\ song_ids = <<>>
  /\ log = <<>>
  /\ calls = <<>>
  /\ error = "none"
  /\ ResolveIdle
  /\ CleanupIdle

\* YouTube.credentials(); the call is noted with the credentials it loaded,
\* the branch it took, and what it returned or that it raised
credentials ==
  /\ pc = "credentials"
  /\ Len(calls) < MaxCredentialsCalls
  /\ LET creds == IF file.exists THEN file.creds ELSE None
         made(branch, outcome, returned) ==
           Append(calls, [op |-> "credentials", loaded |-> creds, branch |-> branch,
                          outcome |-> outcome, returned |-> returned])
         written(c) == [exists |-> TRUE, creds |-> c, writes |-> file.writes + 1]
     IN  IF creds # None /\ creds.valid
         THEN \* line 48: the stored credentials are returned as they are
              /\ calls' = made("valid", "returned", creds)
              /\ error' = "none"
              /\ UNCHANGED file
         ELSE IF creds # None /\ creds.expired /\ creds.refresh_token
         THEN \* line 39: creds.refresh(Request()) returns or raises
              \/ /\ calls' = made("refresh", "returned", Refreshed(creds))
                 /\ file' = written(Refreshed(creds))
                 /\ error' = "none"
              \/ /\ calls' = made("refresh", "raised", None)
                 /\ error' = "RefreshError"
                 /\ UNCHANGED file
         ELSE \* lines 41-43: the name SCOPES is not bound in the method
              /\ calls' = made("login", "raised", None)
              /\ error' = "NameError"
              /\ UNCHANGED file
  /\ UNCHANGED <<pc, args, song_list, m_svc, account, yt_cache, playlist,
                 master_song_list, idx, song_ids, log>>
  /\ UNCHANGED resolve_vars
  /\ UNCHANGED cleanup_vars

\* time passes: the token stored in token.json is past its expiry
TokenExpires ==
  /\ pc = "credentials"
  /\ file.exists
  /\ file.creds.valid
  /\ file' = [file EXCEPT !.creds = [@ EXCEPT !.valid = FALSE, !.expired = TRUE]]
  /\ UNCHANGED <<pc, args, song_list, m_svc, account, yt_cache, playlist,
                 master_song_list, idx, song_ids, log, calls, error>>
  /\ UNCHANGED resolve_vars
  /\ UNCHANGED cleanup_vars

NextCredentials == credentials \/ TokenExpires

SpecCredentials == InitCredentials /\ [][NextCredentials]_vars

----------------------------------------------------------------------------
(* SpecInput: one run of main on Spotify in which song_list.txt spells, line *)
(* by line, the titles of the items of the account's one master playlist    *)

ShortTitleChars == {"a", " ", "-", "("}

\* every title of at most MaxTitleLen of these characters
ShortTitles == UNION {[1..n -> ShortTitleChars] : n \in 0..MaxTitleLen}

\* lines as f.readlines() returns them: two separators, surrounding
\* whitespace, an empty line, a whitespace-only line, a separator at the
\* start, noise before a separator, a last line without its newline, a
\* plain title
InputLinePool == {
  <<"a", " ", "-", " ", "b", " ", "-", " ", "a", "\n">>,
  <<" ", "a", "(", "b", " ", "\n">>,
  <<"\n">>,
  <<" ", "\t", "\n">>,
  <<" ", "-", " ", "a", "\n">>,
  <<"(", "a", ")", " ", "-", " ", "b", "\n">>,
  <<"a", " ", " ", "-", " ", "b">>,
  <<"b", "\n">> }

\* the files: one line for every short title, and up to MaxLines lines of
\* the pool
InputFiles ==
  {<<t \o <<"\n">>>> : t \in ShortTitles}
  \cup UNION {[1..n -> InputLinePool] : n \in 0..MaxLines}

\* the title a line of the file spells: the line without its newline
LineTitle(line) ==
  IF line # <<>> /\ line[Len(line)] = "\n"
  THEN SubSeq(line, 1, Len(line) - 1) ELSE line

\* an account whose one master playlist holds an item per line, titled as
\* the line
InputAccount(lines) ==
  <<[id |-> "p1", name |-> <<"M", "a", "s", "t", "e", "r">>,
     items |-> [i \in 1..Len(lines) |->
                  [name |-> LineTitle(lines[i]), id |-> TrackIds[i]]]]>>

InitInput ==
  /\ pc = "read_song_list"
  /\ args \in [dry_run : BOOLEAN, spotify : {TRUE}, playlist : {TargetName}]
  /\ \E ls \in InputFiles :
       /\ file = [exists |-> TRUE, readable |-> TRUE, lines |-> ls]
       /\ account = InputAccount(ls)
  /\ song_list = <<>>
  /\ m_svc = "none"
  /\ yt_cache = NoCache
  /\ playlist = None
  /\ master_song_list = <<>>
  /\ idx = 0
  /\ song_ids = <<>>
  /\ log = <<>>
  /\ calls = <<>>
  /\ error = "none"
  /\ ResolveIdle
  /\ CleanupIdle

SpecInput == InitInput /\ [][Next]_vars

----------------------------------------------------------------------------
(* Properties of find_matching_song, checked under SpecResolve             *)

Returned == pc = "returned"

Keys == DOMAIN master_song_list

\* lowercase(song_name) is a substring of lowercase(song_title_cleanup(k))
KeyHoldsNeedle(k) ==
  LET hay == lower(SelectSeq(k, LAMBDA c : c \notin NoiseChars))
      needle == lower(song_name)
  IN  \E i \in 0..Len(hay) :
        /\ i + Len(needle) <= Len(hay)
        /\ \A j \in 1..Len(needle) : hay[i + j] = needle[j]

\* C1: whenever find_matching_song returns an item, the item is bound to a
\* catalog key that contains the needle (case-insensitively, after
\* normalization), and it is bound to no key that fails the check.
ContainmentGuard ==
  Returned /\ song # None =>
    /\ \E k \in Keys : song = master_song_list[k] /\ KeyHoldsNeedle(k)
    /\ \A k \in Keys : song = master_song_list[k] => KeyHoldsNeedle(k)

\* C1 witness: the best-scored candidate fails containment and is passed
\* over for a later one.
ContainmentGuardWitness ==
  /\ Returned
  /\ song # None
  /\ ~KeyHoldsNeedle(matches[1])
  /\ song # master_song_list[matches[1]]

\* C2 as stated: whenever some catalog key contains the needle, an item is
\* returned, whatever the size of the catalog.
AnyContainingKeyResolves ==
  Returned /\ (\E k \in Keys : KeyHoldsNeedle(k)) => song # None

\* C2 amended: an item is returned whenever a key containing the needle is
\* among the candidates the scorer returned, which is every such key when
\* the catalog has at most ExtractLimit keys.
CandidateContainingKeyResolves ==
  Returned =>
    /\ (\E i \in DOMAIN matches : KeyHoldsNeedle(matches[i])) => song # None
    /\ Cardinality(Keys) <= ExtractLimit /\ (\E k \in Keys : KeyHoldsNeedle(k))
         => song # None
    /\ Len(matches) = Min(ExtractLimit, Cardinality(Keys))

\* C2 witness: a catalog of more than ExtractLimit keys, a containing key
\* that made it into the candidates behind a failing one, and an item
\* returned.
CandidateContainingKeyResolvesWitness ==
  /\ Returned
  /\ Cardinality(Keys) > ExtractLimit
  /\ ~KeyHoldsNeedle(matches[1])
  /\ \E i \in DOMAIN matches : KeyHoldsNeedle(matches[i])
  /\ song # None

\* C3: the item returned is the one bound to the earliest candidate, in the
\* order the scorer returned, that passes containment.
FirstPassingCandidateWins ==
  Returned =>
    \A i \in DOMAIN matches :
      (KeyHoldsNeedle(matches[i]) /\ \A j \in 1..(i - 1) : ~KeyHoldsNeedle(matches[j]))
        => song = master_song_list[matches[i]]

\* C3 witness: two candidates pass containment, a failing one is ranked
\* before both, and the earlier of the two is returned.
FirstPassingCandidateWinsWitness ==
  /\ Returned
  /\ \E i, j \in DOMAIN matches :
       /\ 1 < i /\ i < j
       /\ \A h \in 1..(i - 1) : ~KeyHoldsNeedle(matches[h])
       /\ KeyHoldsNeedle(matches[i])
       /\ KeyHoldsNeedle(matches[j])
       /\ song = master_song_list[matches[i]]
       /\ song # master_song_list[matches[j]]

\* C4: find_matching_song returns None exactly when no candidate passes
\* containment, returns None on the empty catalog, and every candidate it
\* looks up is a key of the catalog (no KeyError).
NoneIffNoCandidatePasses ==
  Returned =>
    /\ song = None <=> \A i \in DOMAIN matches : ~KeyHoldsNeedle(matches[i])
    /\ Keys = {} => song = None
    /\ \A i \in DOMAIN matches : matches[i] \in Keys

\* C4 witness: ExtractLimit candidates, none of which passes, and None
\* returned.
NoneIffNoCandidatePassesWitness ==
  /\ Returned
  /\ Len(matches) = ExtractLimit
  /\ song = None

\* C5: with at most 5 keys in the catalog and exactly one of them
\* containing the needle, the item bound to that key is returned, whatever
\* the ranking.
UniqueContainingKeyReturned ==
  Returned /\ Cardinality(Keys) <= 5 =>
    \A k \in Keys :
      (KeyHoldsNeedle(k) /\ \A h \in Keys \ {k} : ~KeyHoldsNeedle(h))
        => song = master_song_list[k]

\* C5 witness: five keys, the only containing key properly longer than the
\* needle and ranked last, and its item returned.
UniqueContainingKeyReturnedWitness ==
  /\ Returned
  /\ Cardinality(Keys) = 5
  /\ \E k \in Keys :
       /\ KeyHoldsNeedle(k)
       /\ \A h \in Keys \ {k} : ~KeyHoldsNeedle(h)
       /\ Len(k) > Len(song_name)
       /\ matches[5] = k
       /\ song = master_song_list[k]

----------------------------------------------------------------------------
(* Properties of song_title_cleanup, checked under SpecCleanup             *)

\* C10: song_title_cleanup is idempotent: applying it to its own result (a
\* catalog key, an input title) gives that result back.
CleanupIdempotent ==
  \A i \in 2..Len(cleaned) : cleaned[i] = cleaned[1]

\* C10 witness: a title that the first application changed, cleaned twice.
CleanupIdempotentWitness ==
  /\ Len(cleaned) >= 2
  /\ cleaned[1] # title
  /\ cleaned[1] # <<>>
  /\ cleaned[2] = cleaned[1]

\* the positions of title that hold no noise character
KeptPositions == {i \in DOMAIN title : title[i] \notin NoiseChars}

----------------------------------------------------------------------------
(* Properties of a run of main, checked under Spec                         *)

\* the add_songs_to_playlist calls made so far
AddCalls == SelectSeq(calls, LAMBDA c : c.op = "add_songs_to_playlist")

\* the titles processed so far for which a song was found
ResolvedEntries == SelectSeq(log, LAMBDA e : e.song # None)

MissedEntries == SelectSeq(log, LAMBDA e : e.song = None)

\* C6: the batch add is never called in a dry run; a run that is not a dry
\* run and has ended (normally or on an exception) has called it once if a
\* title resolved and not at all if none did; it is never called twice, nor
\* without a resolved title.
BatchAddCalledOnce ==
  /\ Len(AddCalls) <= 1
  /\ args.dry_run => AddCalls = <<>>
  /\ AddCalls # <<>> => ResolvedEntries # <<>>
  /\ pc \in {"done", "error"} /\ ~args.dry_run =>
       Len(AddCalls) = (IF ResolvedEntries # <<>> THEN 1 ELSE 0)

\* C6 witness: a finished run that is not a dry run, with a title resolved,
\* a title missed and one batch add.
BatchAddCalledOnceWitness ==
  /\ pc = "done"
  /\ ~args.dry_run
  /\ ResolvedEntries # <<>>
  /\ MissedEntries # <<>>
  /\ Len(AddCalls) = 1

\* C7: the ids of a batch add are the native ids of the resolved titles, one
\* per resolved title and in input order, and they go to the playlist whose
\* id find_or_create_playlist returned for the target's name.
BatchAddIdsInInputOrder ==
  \A n \in DOMAIN AddCalls :
    /\ AddCalls[n].song_ids =
         [i \in DOMAIN ResolvedEntries |-> ResolvedEntries[i].song.id]
    /\ \E c \in DOMAIN calls :
         /\ calls[c].op = "find_or_create_playlist"
         /\ calls[c].title = args.playlist
         /\ calls[c].returned = AddCalls[n].playlist_id
    /\ \E i \in DOMAIN account :
         /\ account[i].name = args.playlist
         /\ account[i].id = AddCalls[n].playlist_id

\* C7 witness: three titles, the second one missed, the first and the third
\* resolved to the same item, whose id is submitted twice.
BatchAddIdsInInputOrderWitness ==
  /\ Len(log) = 3
  /\ log[2].song = None
  /\ log[1].song # None
  /\ log[1].song = log[3].song
  /\ Len(AddCalls) = 1
  /\ AddCalls[1].song_ids = <<log[1].song.id, log[1].song.id>>

\* the name holds "master", whatever the case of its letters
IsMasterName(name) ==
  \E i \in 0..(Len(name) - 6) :
    LET at(j) == name[i + j]
    IN  /\ at(1) \in {"m", "M"} /\ at(2) \in {"a", "A"} /\ at(3) \in {"s", "S"}
        /\ at(4) \in {"t", "T"} /\ at(5) \in {"e", "E"} /\ at(6) \in {"r", "R"}

\* a title with the noise characters deleted
Normalized(t) == SelectSeq(t, LAMBDA ch : ch \notin NoiseChars)

\* C8: in a dry run find_or_create_playlist, create_playlist and
\* add_songs_to_playlist are never called and the target is the placeholder
\* {"id": 1}; a dry run that reaches its end has built the catalog from the
\* master playlists and resolved every input title.
DryRunSuppressesMutation ==
  args.dry_run =>
    /\ \A c \in DOMAIN calls :
         calls[c].op \notin {"find_or_create_playlist", "create_playlist",
                             "add_songs_to_playlist"}
    /\ playlist \in {None, [id |-> 1]}
    /\ pc \in {"get_master_song_list", "loop", "done"} => playlist = [id |-> 1]
    /\ pc = "done" =>
         /\ \E c \in DOMAIN calls : calls[c].op = "my_playlists"
         /\ \A i \in DOMAIN account :
              IsMasterName(account[i].name) =>
                /\ \E c \in DOMAIN calls :
                     /\ calls[c].op = "playlist_items"
                     /\ calls[c].playlist_id = account[i].id
                /\ \A j \in DOMAIN account[i].items :
                     Normalized(account[i].items[j].name) \in DOMAIN master_song_list
         /\ \A k \in DOMAIN master_song_list :
              \E i \in DOMAIN account :
                /\ IsMasterName(account[i].name)
                /\ \E j \in DOMAIN account[i].items :
                     /\ master_song_list[k] = account[i].items[j]
                     /\ Normalized(account[i].items[j].name) = k
         /\ Len(log) = Len(song_list)
         /\ \A i \in DOMAIN log : log[i].title = song_list[i]
         /\ song_ids = <<>>

\* C8 witness: a finished dry run whose catalog is not empty, with a title
\* found and a title missed.
DryRunSuppressesMutationWitness ==
  /\ args.dry_run
  /\ pc = "done"
  /\ playlist = [id |-> 1]
  /\ DOMAIN master_song_list # {}
  /\ ResolvedEntries # <<>>
  /\ MissedEntries # <<>>

\* C9: the loop gives every title it has passed exactly one disposition, in
\* file order, whatever happened to the titles before it; at the end of a
\* run requested = resolved + not found, added = resolved in a normal run
\* and added = 0 in a dry run.
EveryTitleAccountedFor ==
  /\ Len(log) = idx
  /\ idx <= Len(song_list)
  /\ \A i \in DOMAIN log :
       /\ log[i].title = song_list[i]
       /\ log[i].disposition \in {"added", "dry-run found", "not found"}
       /\ log[i].disposition = "not found" <=> log[i].song = None
       /\ log[i].disposition = "dry-run found" => args.dry_run
       /\ log[i].disposition = "added" => ~args.dry_run
  /\ Len(song_ids) = (IF args.dry_run THEN 0 ELSE Len(ResolvedEntries))
  /\ pc = "done" =>
       /\ idx = Len(song_list)
       /\ Len(song_list) = Len(ResolvedEntries) + Len(MissedEntries)

\* C9 witness: a finished run whose first title was missed and whose second
\* title was added.
EveryTitleAccountedForWitness ==
  /\ pc = "done"
  /\ Len(log) >= 2
  /\ log[1].disposition = "not found"
  /\ log[2].disposition = "added"

----------------------------------------------------------------------------
(* Properties of the input file and of the catalog keys, checked under     *)
(* SpecInput                                                               *)

\* read_song_list_from_file has returned
SongListRead == pc \notin {"read_song_list"} /\ open_error(file) = "none"

Blanks == {" ", "\t", "\n"}

\* the positions of a line that hold something else than whitespace
Ink(line) == {i \in DOMAIN line : line[i] \notin Blanks}

\* a line from its first to its last character that is not whitespace
Trimmed(line) ==
  LET first == CHOOSE i \in Ink(line) : \A j \in Ink(line) : i <= j
      last == CHOOSE i \in Ink(line) : \A j \in Ink(line) : j <= i
  IN  [i \in 1..(last - first + 1) |-> line[first + i - 1]]

\* " - " stands at position p of s
SeparatorAt(s, p) ==
  /\ p + 2 <= Len(s)
  /\ s[p] = " " /\ s[p + 1] = "-" /\ s[p + 2] = " "

\* s up to its first " - ", all of s if it has none
TitlePart(s) ==
  LET at == {p \in DOMAIN s : SeparatorAt(s, p)}
  IN  IF at = {} THEN s
      ELSE [i \in 1..((CHOOSE p \in at : \A q \in at : p <= q) - 1) |-> s[i]]

\* the lines of the file that are neither empty nor whitespace only
NonBlankLines == {i \in DOMAIN file.lines : Ink(file.lines[i]) # {}}

\* the place in song_list of the title that line i yields
TitleIndex(i) == Cardinality({j \in NonBlankLines : j <= i})

\* C16: read_song_list_from_file yields one title per non-blank line, in
\* file order; the title of a line is the line stripped of surrounding
\* whitespace, cut before its first " - " if it has one, with the noise
\* characters deleted; empty and whitespace-only lines yield nothing.
OneTitlePerNonBlankLine ==
  SongListRead =>
    /\ Len(song_list) = Cardinality(NonBlankLines)
    /\ \A i \in NonBlankLines :
         song_list[TitleIndex(i)] = Normalized(TitlePart(Trimmed(file.lines[i])))

\* C16 witness: a line with two separators, an empty line, and a line with
\* surrounding whitespace and a noise character give two titles.
OneTitlePerNonBlankLineWitness ==
  /\ SongListRead
  /\ file.lines = << <<"a", " ", "-", " ", "b", " ", "-", " ", "a", "\n">>,
                     <<"\n">>,
                     <<" ", "a", "(", "b", " ", "\n">> >>
  /\ song_list = << <<"a">>, <<"a", "b">> >>

\* t has no surrounding whitespace and no " - " separator, and is not empty
\* (the line of an empty title is a blank line, which yields no title)
PlainTitle(t) ==
  /\ t # <<>>
  /\ t[1] \notin Blanks
  /\ t[Len(t)] \notin Blanks
  /\ \A p \in DOMAIN t : ~SeparatorAt(t, p)

\* C12: once the file is read and the catalog is built, the input title of
\* a line spelling a plain title t is a key of the catalog, and when the
\* item titled t is the only one of the master playlist, the key it is
\* stored under is that input title.
NormalizationSymmetry ==
  pc \in {"loop", "done"} =>
    /\ \A i \in DOMAIN file.lines :
         PlainTitle(LineTitle(file.lines[i])) =>
           song_list[TitleIndex(i)] \in DOMAIN master_song_list
    /\ Len(file.lines) = 1 /\ PlainTitle(account[1].items[1].name) =>
         \E k \in DOMAIN master_song_list :
           /\ master_song_list[k] = account[1].items[1]
           /\ song_list = <<k>>

\* C12 witness: a plain title with a noise character in it: the one key of
\* the catalog and the one input title are the same string, which is not
\* the title, and the title resolves to the item.
NormalizationSymmetryWitness ==
  /\ pc = "done"
  /\ Len(file.lines) = 1
  /\ PlainTitle(account[1].items[1].name)
  /\ \E p \in DOMAIN account[1].items[1].name :
       account[1].items[1].name[p] \in NoiseChars
  /\ DOMAIN master_song_list = {song_list[1]}
  /\ song_list[1] # account[1].items[1].name
  /\ log[1].song = account[1].items[1]

----------------------------------------------------------------------------
(* Properties of the catalog builder, checked under Spec                   *)

\* what my_playlists() returns to the catalog builder
Listed == my_playlists(m_svc, account, yt_cache)

\* the playlists of that list whose name holds "master" in any case
ListedMasters == SelectSeq(Listed, LAMBDA p : IsMasterName(p.name))

\* the playlist_items calls made so far
ItemsCalls == SelectSeq(calls, LAMBDA c : c.op = "playlist_items")

\* get_master_song_list has returned
CatalogBuilt == pc \in {"loop", "done"} \/ log # <<>> \/ AddCalls # <<>>

\* C13: the playlists find_master_playlists hands to collect_playlist_items,
\* seen in the playlist_items calls made for them, are the playlists of
\* my_playlists() whose name holds "master" in any case, in the order of
\* my_playlists(), and no other playlist.
MasterPlaylistsSelected ==
  /\ Len(ItemsCalls) <= Len(ListedMasters)
  /\ \A n \in DOMAIN ItemsCalls : ItemsCalls[n].playlist_id = ListedMasters[n].id
  /\ CatalogBuilt => Len(ItemsCalls) = Len(ListedMasters)

\* C13 witness: "my MASTER" is listed before "Master" and both before the
\* target: the two are selected in that order and the target is not.
MasterPlaylistsSelectedWitness ==
  /\ CatalogBuilt
  /\ Len(Listed) = 3
  /\ Listed[1].name = <<"m", "y", " ", "M", "A", "S", "T", "E", "R">>
  /\ Listed[2].name = <<"M", "a", "s", "t", "e", "r">>
  /\ Listed[3].name = TargetName
  /\ [n \in DOMAIN ItemsCalls |-> ItemsCalls[n].playlist_id] =
       <<Listed[1].id, Listed[2].id>>

\* the items the account holds in the playlist of that id
ItemsOf(playlist_id) ==
  account[CHOOSE i \in DOMAIN account : account[i].id = playlist_id].items

\* the places of the flattened list: item j of the n-th selected playlist
Places ==
  UNION {{<<n, j>> : j \in DOMAIN ItemsOf(ListedMasters[n].id)} :
           n \in DOMAIN ListedMasters}

ItemAt(place) == ItemsOf(ListedMasters[place[1]].id)[place[2]]

KeyAt(place) == Normalized(ItemAt(place).name)

\* place a is place b or comes before it in the flattened list
NotAfter(a, b) == a[1] < b[1] \/ (a[1] = b[1] /\ a[2] <= b[2])

\* C14: the keys of the catalog are the normalized titles of the items of
\* the selected playlists, and a key is bound to the last item of the
\* flattened list (playlists in selection order, items in playlist order)
\* that has this normalized title.
CatalogKeysLastWins ==
  CatalogBuilt =>
    /\ DOMAIN master_song_list = {KeyAt(a) : a \in Places}
    /\ \A a \in Places :
         (\A b \in Places : KeyAt(b) = KeyAt(a) => NotAfter(b, a))
           => master_song_list[KeyAt(a)] = ItemAt(a)

\* C14 witness: two items of two selected playlists have the same
\* normalized title and the catalog holds the later one, not the earlier.
CatalogKeysLastWinsWitness ==
  /\ CatalogBuilt
  /\ \E a, b \in Places :
       /\ a[1] < b[1]
       /\ KeyAt(a) = KeyAt(b)
       /\ ItemAt(a) # ItemAt(b)
       /\ master_song_list[KeyAt(a)] = ItemAt(b)
       /\ Cardinality(DOMAIN master_song_list) < Cardinality(Places)

\* C15 as stated: when no playlist my_playlists() returns has "master" in
\* its name, no playlist's items are fetched, the catalog is empty, nothing
\* but a failing file or remote call ends the run with an exception, every
\* title the loop passes is reported as not found, no batch add is
\* submitted, and the run that reaches its end has reported every title.
EmptyCatalogIsNotAnError ==
  (\A i \in DOMAIN Listed : ~IsMasterName(Listed[i].name)) =>
    /\ ItemsCalls = <<>>
    /\ DOMAIN master_song_list = {}
    /\ error \in {"none", "FileNotFoundError", "PermissionError", "ProviderError"}
    /\ \A i \in DOMAIN log : log[i].disposition = "not found"
    /\ AddCalls = <<>>
    /\ pc = "done" => Len(log) = Len(song_list)

----------------------------------------------------------------------------
(* Properties of the order of a run and of its failures, checked under     *)
(* Spec                                                                    *)

\* the step of main call i belongs to: 1 service initialization, 2 target
\* playlist, 3 catalog, 4 batch add; my_playlists() is called by
\* find_or_create_playlist and by find_master_playlists
StepOf(i) ==
  LET op == calls[i].op
  IN  IF op = "init_service" THEN 1
      ELSE IF op \in {"find_or_create_playlist", "create_playlist"} THEN 2
      ELSE IF op = "my_playlists"
      THEN (IF i > 1 /\ calls[i - 1].op = "find_or_create_playlist" THEN 2 ELSE 3)
      ELSE IF op = "playlist_items" THEN 3
      ELSE 4

\* how many calls of that operation belong to that step
CallCount(op, step) ==
  Cardinality({i \in DOMAIN calls : calls[i].op = op /\ StepOf(i) = step})

\* C17: a run goes through its steps in order: the file is read before any
\* call of the provider, the service is initialized first and once, the
\* target playlist comes before the catalog, the catalog is built once and
\* before any title is resolved, and the batch add, at most one, comes
\* after every title has been resolved.
RunIsSequential ==
  /\ calls # <<>> => SongListRead /\ calls[1].op = "init_service"
  /\ \A i, j \in DOMAIN calls : i < j => StepOf(i) <= StepOf(j)
  /\ CallCount("init_service", 1) <= 1
  /\ CallCount("find_or_create_playlist", 2) <= 1
  /\ CallCount("my_playlists", 3) <= 1
  /\ CallCount("add_songs_to_playlist", 4) <= 1
  /\ playlist # None => CallCount("init_service", 1) = 1 /\ m_svc # "none"
  /\ CallCount("my_playlists", 3) = 1 => playlist # None
  /\ CatalogBuilt => CallCount("my_playlists", 3) = 1
  /\ idx > 0 \/ log # <<>> => CatalogBuilt
  /\ AddCalls # <<>> => idx = Len(song_list) /\ Len(log) = Len(song_list)
  /\ pc = "done" => idx = Len(song_list) /\ CatalogBuilt

\* C17 witness: a finished run that created the target, fetched two master
\* playlists, resolved two titles or more and submitted the batch last.
RunIsSequentialWitness ==
  /\ pc = "done"
  /\ Len(log) >= 2
  /\ [i \in DOMAIN calls |-> calls[i].op] =
       <<"init_service", "find_or_create_playlist", "my_playlists",
         "create_playlist", "my_playlists", "playlist_items", "playlist_items",
         "add_songs_to_playlist">>

\* the file cannot be opened
FileFails == ~file.exists \/ ~file.readable

\* no collaborator has been touched
NothingTouched ==
  /\ calls = <<>>
  /\ m_svc = "none"
  /\ playlist = None
  /\ song_list = <<>>
  /\ DOMAIN master_song_list = {}
  /\ log = <<>>

\* C18 as stated: a missing or unreadable song_list.txt ends the run with
\* FileNotFoundError before any collaborator is touched.
InputFileFailureIsFileNotFound ==
  FileFails =>
    /\ pc \in {"read_song_list", "error"}
    /\ pc = "error" => error = "FileNotFoundError"
    /\ NothingTouched

\* C18 amended: a missing song_list.txt ends the run with FileNotFoundError
\* and an unreadable one with the error open() raises for it
\* (PermissionError), in both cases before any collaborator is touched.
InputFileFailureIsFatal ==
  FileFails =>
    /\ pc \in {"read_song_list", "error"}
    /\ pc = "error" /\ ~file.exists => error = "FileNotFoundError"
    /\ pc = "error" /\ file.exists => error = "PermissionError"
    /\ NothingTouched

\* C18 witness: the run has ended on a file that is there but not readable.
InputFileFailureIsFatalWitness ==
  /\ pc = "error"
  /\ file.exists
  /\ ~file.readable
  /\ error = "PermissionError"
  /\ NothingTouched

\* the call that raised, when a call of the provider ended the run
FailedCall == calls[Len(calls)]

\* the run is in error exactly when an exception was raised; the failed
\* call is the last call made and was made once; nothing the later steps
\* produce exists (no target after a failed lookup, no catalog, no
\* disposition and no batch add after a failed catalog build)
StoppedAtFailure ==
  /\ error # "none" <=> pc = "error"
  /\ error = "ProviderError" =>
       /\ calls # <<>>
       /\ \A i \in DOMAIN calls :
            calls[i] = FailedCall /\ StepOf(i) = StepOf(Len(calls)) => i = Len(calls)
       /\ \A i, j \in DOMAIN ItemsCalls :
            ItemsCalls[i].playlist_id = ItemsCalls[j].playlist_id => i = j
       /\ StepOf(Len(calls)) = 1 => m_svc = "none" /\ playlist = None
       /\ StepOf(Len(calls)) <= 2 =>
            /\ playlist = None
            /\ CallCount("my_playlists", 3) = 0
            /\ ItemsCalls = <<>>
       /\ StepOf(Len(calls)) <= 3 =>
            /\ DOMAIN master_song_list = {}
            /\ log = <<>>
            /\ idx = 0
            /\ song_ids = <<>>
            /\ AddCalls = <<>>
       /\ StepOf(Len(calls)) = 4 => Len(AddCalls) = 1

\* C19: a failure of a collaborator call ends the run at that call: the
\* exception raised is the one the run ends with, the failed call is not
\* made again, no later step of the run is executed, and nothing changes
\* once the run has ended on the exception.
FailureEndsRun == []StoppedAtFailure /\ [][pc # "error"]_vars

\* C19 witness: the second playlist_items() of the catalog build raised in
\* a run that is not a dry run and has titles to resolve: no title was
\* processed and nothing was added.
FailureEndsRunWitness ==
  /\ pc = "error"
  /\ error = "ProviderError"
  /\ ~args.dry_run
  /\ song_list # <<>>
  /\ FailedCall.op = "playlist_items"
  /\ Len(ItemsCalls) = 2
  /\ log = <<>>
  /\ AddCalls = <<>>

----------------------------------------------------------------------------
(* Properties of find_or_create_playlist, checked under SpecSink           *)

\* the calls the step adds to the log
NewCalls == SubSeq(calls', Len(calls) + 1, Len(calls'))

\* C20 as stated: a call find_or_create_playlist(title) returns a playlist
\* of the account named exactly title, without calling create_playlist,
\* when the account has one; it calls create_playlist once, with the
\* title, description and visibility it was given, when the account has
\* none and the listing did not fail, and returns the playlist created.
FindOrCreateExact ==
  [][NewCalls # <<>> /\ NewCalls[1].op = "find_or_create_playlist" =>
       LET t == NewCalls[1].title
           existing == {i \in DOMAIN account : account[i].name = t}
           creates == {n \in DOMAIN NewCalls : NewCalls[n].op = "create_playlist"}
           listed == NewCalls[Len(NewCalls)].op # "my_playlists" \/ error' = "none"
       IN  /\ Cardinality(creates) <= 1
           /\ \A n \in creates :
                /\ NewCalls[n].title = t
                /\ NewCalls[n].description = NewCalls[1].description
                /\ NewCalls[n].privacy_status = NewCalls[1].privacy_status
           /\ existing # {} =>
                /\ creates = {}
                /\ account' = account
                /\ error' = "none" =>
                     \E i \in existing :
                       playlist' = [id |-> account[i].id, name |-> account[i].name]
           /\ existing = {} /\ listed => Cardinality(creates) = 1
           /\ existing = {} /\ error' = "none" =>
                /\ playlist'.name = t
                /\ Len(account') = Len(account) + 1
                /\ account'[Len(account')].name = t
                /\ account'[Len(account')].id = playlist'.id
  ]_vars

----------------------------------------------------------------------------
(* Pagination (SpecPaging)                                                 *)

\* the playlists the service holds for the account, page after page
HeldPlaylists == [i \in 1..Len(account) |-> PlaylistRef(account[i])]

\* the items the service holds for a playlist, page after page
HeldItems(playlist_id) ==
  account[CHOOSE i \in DOMAIN account : account[i].id = playlist_id].items

\* C21: for both providers, my_playlists() and playlist_items(id) return the
\* concatenation, in page order, of the items of every page the service
\* holds: every my_playlists() that returned gave all the playlists of the
\* account and every playlist_items(id) that returned gave all the items of
\* the playlist, none beyond the first page left out.
PaginationIsTransparent ==
  \A i \in DOMAIN log :
    /\ log[i].op = "my_playlists" => log[i].returned = HeldPlaylists
    /\ log[i].op = "playlist_items" =>
         log[i].returned = HeldItems(log[i].playlist_id)

----------------------------------------------------------------------------
(* The capability interface (Spec)                                         *)

\* C22: both providers implement every capability the synchronizer invokes
\* (my_playlists, playlist_name, playlist_items, song_name, song_id,
\* find_or_create_playlist, add_songs_to_playlist): no run of main, with the
\* default provider or with the alternate one, terminates on an operation its
\* provider does not define, so a run whose remote calls all succeed reaches
\* the end of main.
EveryCapabilityImplemented == error # "AttributeError"

----------------------------------------------------------------------------
(* Repeated runs (SpecRerun)                                               *)

\* the batch adds submitted so far, over all the runs
Submissions == SelectSeq(calls, LAMBDA c : c.op = "add_songs_to_playlist")

\* the playlist_items() calls made so far, over all the runs
MembershipReads(playlist_id) ==
  {i \in DOMAIN calls : /\ calls[i].op = "playlist_items"
                        /\ calls[i].playlist_id = playlist_id}

\* what the playlist held before the first run
ItemsBefore(playlist_id) ==
  IF \E p \in PlaylistPool : p.id = playlist_id
  THEN (CHOOSE p \in PlaylistPool : p.id = playlist_id).items
  ELSE <<>>

\* what the playlist holds now
ItemsNow(playlist_id) ==
  account[CHOOSE i \in DOMAIN account : account[i].id = playlist_id].items

RECURSIVE TracksSubmitted(_)
\* the tracks of the ids of the submissions, one submission after the other
TracksSubmitted(subs) ==
  IF subs = <<>> THEN <<>>
  ELSE [j \in DOMAIN Head(subs).song_ids |-> TrackOf(Head(subs).song_ids[j])]
       \o TracksSubmitted(Tail(subs))

\* how many times the playlist holds the track of the id
TimesIn(items, id) == Cardinality({j \in DOMAIN items : items[j].id = id})

\* the second run resolved every title to the song the first run resolved it to
ResolvedAlike ==
  /\ Len(log) = 2 * Len(song_list)
  /\ \A i \in DOMAIN song_list : log[i].song = log[Len(song_list) + i].song

\* C23: repeated runs append duplicates.  Membership of the target playlist
\* is never read before adding: when the second of two consecutive
\* non-dry-run runs on the same input has ended, the target playlist holds
\* what it held before, followed by the ids of every submission, and no
\* playlist_items() was called on it; when both runs resolved the titles
\* alike, both submitted the same id list and every resolved id is in the
\* target playlist twice more than before.
RepeatedRunsAppendDuplicates ==
  (pc = "done" /\ Runs = MaxRuns /\ ~args.dry_run) =>
    /\ MembershipReads(playlist.id) = {}
    /\ ItemsNow(playlist.id) =
         ItemsBefore(playlist.id) \o TracksSubmitted(Submissions)
    /\ ResolvedAlike =>
         /\ Len(Submissions) \in {0, 2}
         /\ Len(Submissions) = 2 =>
              /\ Submissions[1] = Submissions[2]
              /\ \A j \in DOMAIN Submissions[1].song_ids :
                   LET id == Submissions[1].song_ids[j]
                   IN  TimesIn(ItemsNow(playlist.id), id) =
                         TimesIn(ItemsBefore(playlist.id), id)
                         + 2 * TimesIn(TracksSubmitted(<<Submissions[1]>>), id)

\* two runs have each submitted a song, and the target playlist, which held
\* that song already, holds it three times
RepeatedRunsAppendDuplicatesWitness ==
  /\ pc = "done" /\ Runs = MaxRuns /\ ~args.dry_run
  /\ ResolvedAlike
  /\ Len(Submissions) = 2
  /\ \E j \in DOMAIN Submissions[1].song_ids :
       /\ TimesIn(ItemsBefore(playlist.id), Submissions[1].song_ids[j]) = 1
       /\ TimesIn(ItemsNow(playlist.id), Submissions[1].song_ids[j]) = 3

----------------------------------------------------------------------------
(* Resetting the target playlist (SpecReset)                               *)

CallsOf(op) == {i \in DOMAIN calls : calls[i].op = op}

\* the items playlist_items() returned to reset_playlist, if it returned
ItemsRead ==
  {calls[i].returned : i \in {j \in CallsOf("playlist_items") :
                                 "returned" \in DOMAIN calls[j]}}

\* what the user answered, if asked
Answered == {calls[i].returned : i \in CallsOf("input")}

\* what the calls made so far say about the reset
ResetCalls ==
  /\ args.dry_run =>
       CallsOf("playlist_items") = {} /\ CallsOf("delete_songs_from_playlist") = {}
  /\ ItemsRead = {<<>>} => CallsOf("delete_songs_from_playlist") = {}
  /\ "n" \in Answered => CallsOf("delete_songs_from_playlist") = {}
  /\ args.reset => CallsOf("input") = {}
  /\ \A i \in CallsOf("delete_songs_from_playlist") :
       /\ args.reset \/ Answered = {"y"}
       /\ ItemsRead = {calls[i].items}
       /\ calls[i].items # <<>>
       /\ calls[i].playlist_id = playlist.id
  /\ (pc = "done" /\ ~args.dry_run /\ ItemsRead # {<<>>}
        /\ (args.reset \/ "y" \in Answered)) =>
       /\ CallsOf("delete_songs_from_playlist") # {}
       /\ account = ResetAccount(<<>>)

\* C24: resetting the target playlist deletes its contents only when the
\* reset is forced by flag or the user confirms the prompt.  In a dry run
\* the items are not read and nothing is deleted; when the playlist is empty
\* nothing is deleted; when the user answers "n" nothing is deleted; with the
\* reset flag the items read are deleted without a prompt; and a step that
\* makes no delete call leaves every playlist of the account as it was.
ResetOnlyWhenForcedOrConfirmed ==
  /\ []ResetCalls
  /\ [][(\A i \in DOMAIN calls' : calls'[i].op # "delete_songs_from_playlist")
          => account' = account]_vars

\* a playlist of two items was emptied on the flag alone, without a prompt
ResetOnlyWhenForcedOrConfirmedWitness ==
  /\ pc = "done"
  /\ args.reset /\ ~args.dry_run
  /\ \E items \in ItemsRead : Len(items) = 2
  /\ CallsOf("delete_songs_from_playlist") # {}
  /\ CallsOf("input") = {}
  /\ account[1].items = <<>>

----------------------------------------------------------------------------
(* The catalog after construction (Spec)                                   *)

\* the titles processed so far that were resolved
ResolvedSoFar == {i \in DOMAIN log : log[i].song # None}

\* what the dispositions printed so far say about the catalog
CatalogStillBinds ==
  /\ \A i \in ResolvedSoFar :
       \E k \in DOMAIN master_song_list : master_song_list[k] = log[i].song
  /\ Cardinality(DOMAIN master_song_list) <= 1 =>
       \A i, j \in DOMAIN log : log[i].title = log[j].title => log[i].song = log[j].song

----------------------------------------------------------------------------
(* Repeated find_or_create_playlist on one YouTube instance (SpecSink)     *)

\* the playlists of that title the instance has created so far
CreatedNamed(t) ==
  {i \in DOMAIN account :
     /\ account[i].name = t
     /\ \E n \in DOMAIN NewPlaylistIds : account[i].id = NewPlaylistIds[n]}

\* C26: on one YouTube instance, for any sequence of find_or_create_playlist
\* calls with the same title, at most one playlist with that title is
\* created: once a call has created the playlist, a later call returns it
\* instead of creating a second one.
AtMostOneCreatedPerTitle ==
  m_svc = "youtube" => \A t \in SinkTitles : Cardinality(CreatedNamed(t)) <= 1

----------------------------------------------------------------------------
(* Lines of noise characters only (SpecNoise)                              *)

\* the line, stripped, is made of noise characters only
NoiseOnly(line) ==
  /\ Ink(line) # {}
  /\ \A i \in DOMAIN Trimmed(line) : Trimmed(line)[i] \in NoiseChars

\* the titles among the first n processed whose id went to the batch
AddedUpTo(n) == Cardinality({m \in 1..n : log[m].disposition = "added"})

\* C27: an input line made only of noise characters is not dropped by
\* read_song_list_from_file: it yields the empty title.  The empty needle is
\* contained in every candidate, so whenever the catalog gives the scorer a
\* key to return, the empty title is resolved to an item of the catalog, and
\* outside a dry run that item's id is added to the batch, at the place of
\* the title among the titles added.
NoiseOnlyLineResolves ==
  /\ SongListRead =>
       /\ Len(song_list) = Cardinality(NonBlankLines)
       /\ \A i \in NonBlankLines :
            NoiseOnly(file.lines[i]) => song_list[TitleIndex(i)] = <<>>
  /\ \A n \in DOMAIN log :
       log[n].title = <<>> =>
         IF DOMAIN master_song_list = {}
         THEN log[n].song = None
         ELSE /\ \E k \in DOMAIN master_song_list : log[n].song = master_song_list[k]
              /\ ~args.dry_run =>
                   /\ log[n].disposition = "added"
                   /\ song_ids[AddedUpTo(n)] = log[n].song.id

\* the file holds "()" and a plain title; the catalog has two keys; the item
\* found for the empty title was submitted with the plain title's
NoiseOnlyLineResolvesWitness ==
  /\ pc = "done"
  /\ ~args.dry_run
  /\ \E i \in NonBlankLines : file.lines[i] = <<"(", ")", "\n">>
  /\ Cardinality(DOMAIN master_song_list) >= 2
  /\ \E n, m \in DOMAIN log :
       /\ log[n].title = <<>> /\ log[n].disposition = "added"
       /\ log[m].title = <<"b">> /\ log[m].disposition = "added"
  /\ \E c \in DOMAIN calls :
       /\ calls[c].op = "add_songs_to_playlist"
       /\ Len(calls[c].song_ids) = 2

----------------------------------------------------------------------------
(* The YouTube-only variant and the batched synchronizer (SpecVariant)     *)

\* both scripts have run, the second to its end
BothRan == BatchedEnded # {} /\ pc = "done"

\* how the batched synchronizer ended: "none" if normally
BatchedError == calls[CHOOSE i \in BatchedEnded : TRUE].after

\* the id list the batched synchronizer submitted, empty if it submitted none
BatchSubmitted ==
  LET adds == SelectSeq(calls, LAMBDA c : c.op = "add_songs_to_playlist")
  IN  IF adds = <<>> THEN <<>> ELSE adds[1].song_ids

\* the ids the variant added, one call after the other
AddedOneByOne ==
  LET adds == SelectSeq(calls, LAMBDA c : c.op = "add_video_to_playlist")
  IN  [n \in DOMAIN adds |-> adds[n].video_id]

\* C28: the YouTube-only variant and the batched synchronizer are equivalent
\* on success: for the same input titles, none holding an arrow glyph, and
\* the same catalog source, the ids the variant adds one by one are the id
\* list the batched version submits; the two differ only when a collaborator
\* fails in the middle of a run.
VariantAddsWhatBatchSubmits ==
  (BothRan /\ BatchedError # "ProviderError") => AddedOneByOne = BatchSubmitted

----------------------------------------------------------------------------
(* YouTube.credentials() (SpecCredentials)                                 *)

\* the step is a call of credentials()
CredentialsCalled == Len(calls') = Len(calls) + 1

\* the call the step made
ThisCall == calls'[Len(calls')]

\* what token.json stored when the call began
Stored == IF file.exists THEN file.creds ELSE None

\* the step wrote token.json once, with the credentials the call returned
TokenWritten ==
  /\ file'.exists
  /\ file'.writes = file.writes + 1
  /\ file'.creds = ThisCall.returned

\* C29: credentials() returns a stored token that loads as valid without
\* refresh, without login flow and without rewriting the token file; it
\* refreshes a token that is expired and has a refresh token, and runs the
\* interactive login flow when there is no usable token, and in both cases
\* writes the token file before it returns; when the refresh raises, the
\* exception propagates and the token file is not written.
CredentialsFlow ==
  [][CredentialsCalled =>
       IF Stored # None /\ Stored.valid
       THEN /\ ThisCall.branch = "valid"
            /\ ThisCall.outcome = "returned"
            /\ ThisCall.returned = Stored
            /\ file' = file
       ELSE IF Stored # None /\ Stored.expired /\ Stored.refresh_token
       THEN /\ ThisCall.branch = "refresh"
            /\ \/ /\ ThisCall.outcome = "returned"
                  /\ ThisCall.returned = Refreshed(Stored)
                  /\ TokenWritten
               \/ /\ ThisCall.outcome = "raised"
                  /\ error' = "RefreshError"
                  /\ file' = file
       ELSE /\ ThisCall.branch = "login"
            /\ ThisCall.outcome = "returned"
            /\ ThisCall.returned.valid
            /\ TokenWritten
  ]_vars

====
